---- MODULE Spec2Model ----
(***************************************************************************)
(* A model of the warthog search core:                                     *)
(*   - flexible_astar (src/search/flexible_astar.h): the best-first search *)
(*     loop, its cutoffs, its hooks and its reuse across queries;          *)
(*   - fch_down_dfs_expansion_policy: rank-biased expansion with label     *)
(*     pruning and the apex-rooted labelling that feeds it;                *)
(*   - down_dfs_labelling: compute_labels and improve_labels;              *)
(*   - sipp_gridmap: the safe intervals of every cell of a grid.           *)
(* The graph adapter, the node pool and the priority queue are external    *)
(* collaborators; they are modelled by what the engine relies on.          *)
(***************************************************************************)
EXTENDS Integers, Sequences, FiniteSets, TLC

VARIABLES
    adj,        \* graph adapter: adj[n] is the outgoing edge list of node n
    rank,       \* contraction rank of every node
    eng,        \* the flexible_astar instance under test
    fresh,      \* a second, freshly constructed instance (reference for reuse)
    pol,        \* the expansion policy composed into eng
    limit,      \* how many search calls the scenario allows on eng
    hmax,       \* largest value the configured heuristic may return
    lbl,        \* the label builder: first moves, postorder ids, edge labels
    grid        \* the sipp_gridmap: safe intervals and obstacle markers per cell

vars == <<adj, rank, eng, fresh, pol, limit, hmax, lbl, grid>>

-----------------------------------------------------------------------------
(* Bounds of the model *)

NumNodes == 4
MaxWeight == 1
MaxH == 1
MaxSearches == 2
MaxCutoff == 1
MaxParts == 2

Node == 0 .. (NumNodes - 1)

\* no sipp_gridmap is constructed in the scenarios of the search core
NoGrid == "none"

\* warthog::INF: "no id" for node ids, "unlimited" for costs and cutoffs
INF == 1000

\* the null search_node pointer
NULL == 0 - 1

\* marks an edge slot that the graph does not contain
Absent == 0 - 1

\* bytes of a first-move bitset (fm_label)
FM_BYTES == 32

\* the out-degree from which improve_labels selects a node
RefineDegree == 100

-----------------------------------------------------------------------------
(* Small helpers *)

Min(S) == CHOOSE x \in S : \A y \in S : x <= y

Max(S) == CHOOSE x \in S : \A y \in S : x >= y

\* addition on costs, saturating at INF
Plus(a, b) == IF a >= INF \/ b >= INF THEN INF ELSE a + b

\* the sequence F(1), ..., F(k)
Tabulate(F(_), k) == SubSeq([i \in 1 .. k |-> F(i)], 1, k)

\* k copies of s, one after the other
Repeat(s, k) == Tabulate(LAMBDA i : s[((i - 1) % Len(s)) + 1], k * Len(s))

\* the subsequence of s whose elements satisfy Keep
RECURSIVE SelectIdx(_, _, _)
SelectIdx(s, Keep(_), i) ==
    IF i > Len(s) THEN <<>>
    ELSE (IF Keep(i) THEN <<s[i]>> ELSE <<>>) \o SelectIdx(s, Keep, i + 1)

-----------------------------------------------------------------------------
(* Graph adapter *)

\* candidate directed edges of the query graphs, in adjacency order
Slots == << <<0, 1>>, <<0, 2>>, <<1, 2>>, <<2, 3>>, <<3, 1>> >>

SlotWeights == {Absent} \cup (0 .. MaxWeight)

\* the adjacency lists of the graph that gives slot i the weight wv[i]
GraphOf(wv) ==
    [n \in Node |->
        LET mine(i) == Slots[i][1] = n /\ wv[i] # Absent
            edge(i) == [to |-> Slots[i][2], wt |-> wv[i]]
            all == [i \in DOMAIN Slots |-> edge(i)]
        IN SelectIdx(all, mine, 1)]

QueryGraphs == { GraphOf(wv) : wv \in [DOMAIN Slots -> SlotWeights] }

\* planar_graph::to_graph_id: external ids 0..NumNodes-1 map to themselves,
\* every other external id has no internal mapping
to_graph_id(ext) == IF ext \in Node THEN ext ELSE INF

ExtIds == Node \cup {NumNodes}

\* shortest distance from every node to t (Bellman-Ford), INF if none
RECURSIVE RelaxFrom(_, _)
RelaxFrom(d, n) ==
    IF n = NumNodes THEN <<>>
    ELSE << Min({d[n + 1]} \cup { Plus(adj[n][i].wt, d[adj[n][i].to + 1]) :
                                   i \in DOMAIN adj[n] }) >>
         \o RelaxFrom(d, n + 1)

RECURSIVE Relax(_, _)
Relax(d, k) == IF k = 0 THEN d ELSE Relax(RelaxFrom(d, 0), k - 1)

DistTo(t) ==
    LET d == Relax([i \in 1 .. NumNodes |-> IF i = t + 1 THEN 0 ELSE INF], NumNodes)
    IN [n \in Node |-> d[n + 1]]

-----------------------------------------------------------------------------
(* Contraction hierarchies *)

\* the rank vector of the hierarchies: node 0 is the apex
ChRank == [n \in Node |-> (NumNodes - 1) - n]

\* the rank vectors of the scenarios: any ranks, equal ones included
RankVectors == [Node -> 0 .. (NumNodes - 1)]

\* candidate undirected edges of the hierarchies
Pairs == << <<0, 1>>, <<0, 2>>, <<0, 3>>, <<1, 2>>, <<2, 3>> >>

\* fch_sort_successors: the edges that lead up come first, then the others;
\* either group keeps its order
fch_sort_successors(edges, n, rk) ==
    SelectSeq(edges, LAMBDA e : rk[e.to] > rk[n])
        \o SelectSeq(edges, LAMBDA e : ~(rk[e.to] > rk[n]))

\* the sorted adjacency lists of the symmetric graph that gives pair i the
\* weight wv[i]
SymGraphOf(wv, rk) ==
    [n \in Node |->
        LET mine(i) == wv[i] # Absent /\ n \in {Pairs[i][1], Pairs[i][2]}
            edge(i) == [to |-> IF Pairs[i][1] = n THEN Pairs[i][2] ELSE Pairs[i][1],
                        wt |-> wv[i]]
            all == [i \in DOMAIN Pairs |-> edge(i)]
        IN fch_sort_successors(SelectIdx(all, mine, 1), n, rk)]

\* one sweep of Bellman-Ford over the edges of g among the nodes of keep
RECURSIVE SweepIn(_, _, _, _)
SweepIn(g, keep, d, n) ==
    IF n = NumNodes THEN <<>>
    ELSE << IF n \notin keep THEN INF
            ELSE Min({d[n + 1]} \cup
                     UNION { { Plus(d[m + 1], g[m][i].wt) :
                                 i \in { j \in DOMAIN g[m] : g[m][j].to = n } } :
                             m \in keep }) >>
         \o SweepIn(g, keep, d, n + 1)

RECURSIVE SweepsIn(_, _, _, _)
SweepsIn(g, keep, d, k) ==
    IF k = 0 THEN d ELSE SweepsIn(g, keep, SweepIn(g, keep, d, 0), k - 1)

\* shortest distance from s to t in g along paths inside keep
DistIn(g, keep, s, t) ==
    SweepsIn(g, keep, [i \in 1 .. NumNodes |-> IF i = s + 1 THEN 0 ELSE INF],
             NumNodes)[t + 1]

\* g is a contraction hierarchy for the ranks rk: contracting any node v
\* leaves the distance between two of its higher neighbours as it was
IsCH(g, rk) ==
    \A v \in Node : \A i, j \in DOMAIN g[v] :
        LET x == g[v][i].to
            y == g[v][j].to
        IN (rk[x] > rk[v] /\ rk[y] > rk[v] /\ x # y) =>
              DistIn(g, { n \in Node : rk[n] > rk[v] }, x, y) <= g[v][i].wt + g[v][j].wt

\* the hierarchies of the pruning scenarios: weights 1 .. MaxWeight + 1
ChGraphs ==
    { g \in { SymGraphOf(wv, ChRank) :
                wv \in [DOMAIN Pairs -> {Absent} \cup (1 .. (MaxWeight + 1))] } :
        IsCH(g, ChRank) }

\* the hierarchies of the labelling scenarios: every pair absent or of
\* weight MaxWeight
UniformChGraphs ==
    { g \in { SymGraphOf(wv, ChRank) : wv \in [DOMAIN Pairs -> {Absent, MaxWeight}] } :
        IsCH(g, ChRank) }

\* g with the edge list of every node of hubs repeated until improve_labels
\* selects the node (parallel edges: no smaller graph has a node of that
\* degree)
Pad(g, hubs) ==
    [n \in Node |->
        IF n \notin hubs \/ g[n] = <<>> THEN g[n]
        ELSE fch_sort_successors(
                 Repeat(g[n], ((RefineDegree - 1) \div Len(g[n])) + 1), n, ChRank)]

\* how many nodes of a labelling scenario are padded
MaxHubs == 2

LabelGraphs ==
    { Pad(g, hubs) : g \in UniformChGraphs,
                     hubs \in { h \in SUBSET Node : Cardinality(h) <= MaxHubs } }

\* the nodes reached from the nodes of S over at most k edges that do not
\* lead up
RECURSIVE DownClosure(_, _)
DownClosure(S, k) ==
    IF k = 0 THEN S
    ELSE DownClosure(S \cup UNION { { adj[n][i].to :
                                        i \in { j \in DOMAIN adj[n] :
                                                  rank[adj[n][j].to] < rank[n] } } :
                                    n \in S }, k - 1)

DownReach(n) == DownClosure({n}, NumNodes)

-----------------------------------------------------------------------------
(* Search nodes and the node pool *)

\* a search node nobody has touched
FreshNode == [sid |-> 0, g |-> INF, f |-> INF, parent |-> NULL, expanded |-> FALSE]

\* expansion_policy::generate: the pool's record for id; a record whose stamp
\* is not the current episode's is handed out as never seen
generate(pool, id, sid) ==
    IF pool[id].sid = sid THEN pool
    ELSE [pool EXCEPT ![id] = [FreshNode EXCEPT !.sid = pool[id].sid]]

\* generate for every node of the successor list neis
generate_all(pool, neis, sid) ==
    [n \in Node |->
        IF \E i \in DOMAIN neis : neis[i].to = n THEN generate(pool, n, sid)[n]
        ELSE pool[n]]

\* search_node::init
init(pool, id, sid, parent, g, f) ==
    [pool EXCEPT ![id] = [sid |-> sid, g |-> g, f |-> f,
                          parent |-> parent, expanded |-> FALSE]]

\* search_node::relax: f keeps its heuristic part
relax(pool, id, gval, parent) ==
    [pool EXCEPT ![id].f = (pool[id].f - pool[id].g) + gval,
                 ![id].g = gval,
                 ![id].parent = parent]

\* pqueue::peek: the candidates for the minimum-f element of the frontier
MinF(pool, open) == { n \in open : \A m \in open : pool[n].f <= pool[m].f }

-----------------------------------------------------------------------------
(* Expansion policies *)

\* fch_interval: an interval of postorder ids; the default one is empty
EmptyInterval == [left |-> INF, right |-> 0 - INF]

IntervalContains(iv, x) == iv.left <= x /\ x <= iv.right

\* fch_interval::grow and fch_interval::merge
interval_grow(iv, x) == [left |-> Min({iv.left, x}), right |-> Max({iv.right, x})]

interval_merge(a, b) ==
    [left |-> Min({a.left, b.left}), right |-> Max({a.right, b.right})]

\* fch_sort_successors leaves the up edges first; down_heads_[n] counts them
down_heads(n) == Cardinality({ i \in DOMAIN adj[n] : rank[adj[n][i].to] > rank[n] })

\* fch_down_dfs_expansion_policy::filter: TRUE when the label of the j-th down
\* edge of node_id cannot contain the target's postorder id
filter(node_id, j) ==
    ~IntervalContains(pol.edge_labels[node_id][j], pol.t_label)

\* a slip: every step is taken for a step down
expand_ranked_down_only(current_id, pn, pruned) ==
    LET begin == SubSeq(adj[current_id], down_heads(current_id) + 1,
                        Len(adj[current_id]))
        admitted(j) == ~filter(current_id, j)
    IN IF pruned THEN SelectIdx(begin, admitted, 1) ELSE begin

\* fch_down_dfs_expansion_policy::expand; pn is the parent of current (NULL
\* for the start node).  With pruned = FALSE the label filter is left out:
\* the unpruned rank-biased policy (fch_expansion_policy)
expand_ranked(current_id, pn, pruned) ==
    LET up_travel == pn = NULL \/ rank[current_id] > rank[pn]
        begin == SubSeq(adj[current_id], down_heads(current_id) + 1,
                        Len(adj[current_id]))
        admitted(j) == ~filter(current_id, j)
    IN IF up_travel THEN adj[current_id]
       ELSE IF pruned THEN SelectIdx(begin, admitted, 1)
       ELSE begin

\* chase_expansion_policy, the two-phase policy.  p is the policy object:
\* fn_filter_arc names the member function its filter pointer selects,
\* backward its direction, flags[n][i] the partitions for which the arc
\* flag of the i-th enumerated edge of n is set, af_target the target the
\* arc-flags filter was told

\* the partition of a node
AfPart(n) == n % 2

\* the incoming edges of n that leave the nodes m, m + 1, ..., each listed by
\* its tail
RECURSIVE incoming(_, _)
incoming(n, m) ==
    IF m = NumNodes THEN <<>>
    ELSE LET sel == SelectSeq(adj[m], LAMBDA e : e.to = n)
         IN Tabulate(LAMBDA i : [to |-> m, wt |-> sel[i].wt], Len(sel))
                \o incoming(n, m + 1)

\* fn_begin_iter_ .. fn_end_iter_: the edges of n in the policy's direction
chase_edges(p, n) == IF p.backward THEN incoming(n, 0) ELSE adj[n]

\* af_filter::filter: TRUE when the arc flag of the edge is not set for the
\* partition of the target (edge_idx counts from 1 here)
af_filter(p, node_id, edge_idx) ==
    p.af_target \in Node /\ AfPart(p.af_target) \notin p.flags[node_id][edge_idx]

\* nothing is filtered in phase1
phase1_filter_fn(p, node_id, edge_idx) == FALSE

\* a slip: phase2 filters nothing either
phase2_filter_off(p, node_id, edge_idx) == FALSE

\* apply arcflags filtering in phase2
phase2_filter_fn(p, node_id, edge_idx) == af_filter(p, node_id, edge_idx)

\* the call through the member function pointer fn_filter_arc
filter_arc(p, node_id, edge_idx) ==
    IF p.fn_filter_arc = "phase2_filter_fn"
    THEN phase2_filter_fn(p, node_id, edge_idx)
    ELSE phase1_filter_fn(p, node_id, edge_idx)

\* the constructor: the policy starts in phase 1
chase_expansion_policy(flags, backward) ==
    [kind |-> "chase", fn_filter_arc |-> "phase1_filter_fn",
     backward |-> backward, flags |-> flags, af_target |-> INF, last |-> "none"]

\* a slip: the call leaves the filter pointer as it is
begin_phase2_forgets(p) == p

\* chase_expansion_policy::begin_phase2
begin_phase2(p) == [p EXCEPT !.fn_filter_arc = "phase2_filter_fn"]

\* generate_start_node / generate_target_node switch the policy to phase 1
chase_generate(p) == [p EXCEPT !.fn_filter_arc = "phase1_filter_fn"]

\* chase_expansion_policy::expand: the edges of current_id, in the policy's
\* direction, that the selected filter function does not reject
chase_expand(p, current_id) ==
    LET admitted(i) == ~filter_arc(p, current_id, i)
    IN SelectIdx(chase_edges(p, current_id), admitted, 1)

\* the successor list the composed policy hands to the engine
expand(current_id, pn) ==
    CASE pol.kind = "graph" -> adj[current_id]
      [] pol.kind = "fch" -> expand_ranked(current_id, pn, FALSE)
      [] pol.kind = "chase" -> chase_expand(pol, current_id)
      [] OTHER -> expand_ranked(current_id, pn, TRUE)

\* generate_start_node / generate_target_node: NULL when the external id has
\* no internal mapping, else the internal id of the generated node
generate_endpoint(ext) == IF to_graph_id(ext) = INF THEN NULL ELSE to_graph_id(ext)

-----------------------------------------------------------------------------
(* flexible_astar *)

\* the engine after its constructor
NewEngine ==
    [searchid |-> 0, pool |-> [n \in Node |-> FreshNode], open |-> {},
     cost_cutoff |-> INF, exp_cutoff |-> INF,
     nodes_expanded |-> 0, nodes_generated |-> 0,
     pc |-> "idle", start |-> INF, target |-> INF,
     current |-> NULL, neis |-> <<>>, i |-> 0,
     ret |-> NULL, why |-> "none", deref |-> FALSE, query |-> <<INF, INF>>,
     hv |-> [n \in Node |-> 0], filter |-> {},
     hooked |-> [fn |-> "none", n |-> NULL],
     instance_search_id |-> 0]

\* a slip: the frontier of the previous search is not cleared
cleanup_keeps_open(e) == [e EXCEPT !.neis = <<>>]

\* flexible_astar::cleanup: open_->clear() and expander_->clear()
cleanup(e) == [e EXCEPT !.open = {}, !.neis = <<>>]

\* a slip: the counter of searches is not advanced
next_search_id_stuck(e) == e.searchid

\* ++(this->searchid_)
next_search_id(e) == e.searchid + 1

\* flexible_astar::search up to the push of the start node.  h is the
\* heuristic's value for every node against this query's target; junk is
\* what a read through a null search_node pointer yields when the process
\* survives it (NULL: it does not)
search_begin(e, s_ext, t_ext, h, junk) ==
    LET e1 == [cleanup(e) EXCEPT !.nodes_expanded = 0, !.nodes_generated = 0,
                                 !.current = NULL, !.i = 0,
                                 !.searchid = next_search_id(e),
                                 !.instance_search_id = next_search_id(e),
                                 !.start = s_ext, !.target = t_ext,
                                 !.ret = NULL, !.why = "none", !.hv = h,
                                 !.deref = FALSE, !.query = <<s_ext, t_ext>>,
                                 !.hooked = [fn |-> "none", n |-> NULL]]
        sid == e1.instance_search_id
        s0 == generate_endpoint(s_ext)
        t0 == generate_endpoint(t_ext)
        crash == [e1 EXCEPT !.pc = "crash", !.deref = TRUE]
        s == IF s0 = NULL THEN junk ELSE s0
        t == IF t_ext = INF THEN INF ELSE IF t0 = NULL THEN junk ELSE t0
        p1 == generate(e1.pool, s, sid)
        p2 == IF t = INF THEN p1 ELSE generate(p1, t, sid)
    IN IF s_ext = INF THEN [e1 EXCEPT !.pc = "done", !.why = "nostart"]
       ELSE IF (s0 = NULL \/ (t_ext # INF /\ t0 = NULL)) /\ junk = NULL THEN crash
       ELSE [e1 EXCEPT !.start = s, !.target = t,
                       !.deref = (s0 = NULL \/ (t_ext # INF /\ t0 = NULL)),
                       !.pool = init(p2, s, sid, NULL, 0, h[s]),
                       !.open = {s},
                       !.pc = "loop"]

\* the goal test on the frontier minimum
is_target(top, target_id) == top = target_id

\* a slip: the cost cutoff is never looked at
cost_cutoff_hit_never(f, cost_cutoff) == FALSE

\* a slip: a frontier minimum that costs exactly the cutoff ends the search
cost_cutoff_hit_inclusive(f, cost_cutoff) == f >= cost_cutoff

\* the early termination tests
cost_cutoff_hit(f, cost_cutoff) == f > cost_cutoff

\* a slip: one expansion more than the cutoff allows
exp_cutoff_hit_late(nodes_expanded, exp_cutoff) == nodes_expanded > exp_cutoff

exp_cutoff_hit(nodes_expanded, exp_cutoff) == nodes_expanded >= exp_cutoff

\* a slip: only the start node is recognised as expanded
already_expanded_start_only(pool, n) == pool[n].expanded /\ pool[n].parent = NULL

\* a slip: expanded neighbours are not recognised
already_expanded_never(pool, n) == FALSE

\* "skip neighbours already expanded"
already_expanded(pool, n) == pool[n].expanded

\* a slip: the comparison of the candidate g is turned around
improves_flipped(gval, g) == gval > g

\* a slip: a candidate of equal cost counts as an improvement
improves_on_ties(gval, g) == gval <= g

\* the test that decides between relaxing a frontier node and leaving it
improves(gval, g) == gval < g

\* one iteration of the while loop up to the call of expand: the goal test
\* on the frontier minimum, the two cutoffs, then pop and expand
loop_head(e, top) ==
    IF e.open = {} THEN [e EXCEPT !.pc = "done", !.why = "exhausted"]
    ELSE IF is_target(top, e.target) THEN [e EXCEPT !.pc = "done", !.why = "found", !.ret = top]
    ELSE IF cost_cutoff_hit(e.pool[top].f, e.cost_cutoff) THEN [e EXCEPT !.pc = "done", !.why = "cost_cutoff"]
    ELSE IF exp_cutoff_hit(e.nodes_expanded, e.exp_cutoff) THEN [e EXCEPT !.pc = "done", !.why = "exp_cutoff"]
    ELSE LET neis == expand(top, e.pool[top].parent)
             p1 == [e.pool EXCEPT ![top].expanded = TRUE]
         IN [e EXCEPT !.open = @ \ {top},
                      !.nodes_expanded = @ + 1,
                      !.pool = generate_all(p1, neis, e.searchid),
                      !.current = top, !.neis = neis, !.i = 1,
                      !.hooked = [fn |-> "none", n |-> NULL],
                      !.pc = IF neis = <<>> THEN "loop" ELSE "succ"]

\* a slip: the g of the current node is left out of the candidate
candidate_g_edge_only(e) == e.neis[e.i].wt

\* double gval = current->get_g() + cost_to_n
candidate_g(e) == e.pool[e.current].g + e.neis[e.i].wt

\* the body of the successor loop for the i-th successor of current;
\* hooked notes which of on_relax_fn_ and on_norelax_fn_ the body called,
\* and for which node
process_succ(e) ==
    LET n == e.neis[e.i].to
        gval == candidate_g(e)
        step == [e EXCEPT !.i = @ + 1,
                          !.hooked = [fn |-> "none", n |-> NULL],
                          !.pc = IF e.i = Len(e.neis) THEN "loop" ELSE "succ"]
        on_relax_fn == [fn |-> "relax", n |-> n]
        on_norelax_fn == [fn |-> "norelax", n |-> n]
    IN IF already_expanded(e.pool, n) THEN step
       ELSE IF n \in e.open
            THEN IF improves(gval, e.pool[n].g)
                 THEN [step EXCEPT !.pool = relax(e.pool, n, gval, e.current),
                                   !.hooked = on_relax_fn]
                 ELSE [step EXCEPT !.hooked = on_norelax_fn]
       ELSE LET p1 == init(e.pool, n, e.instance_search_id, e.current, gval,
                           gval + e.hv[n])
            IN IF n \in e.filter THEN [step EXCEPT !.pool = p1]
               ELSE [step EXCEPT !.pool = p1, !.open = @ \cup {n},
                                 !.nodes_generated = @ + 1,
                                 !.hooked = on_relax_fn]

\* flexible_astar::get_path: the stack of ids pushed while following the
\* parent pointers from the returned node, top of the stack first
\* a slip: the ids are listed in the order they are met, target first
RECURSIVE follow_target_first(_, _, _)
follow_target_first(pool, cur, fuel) ==
    IF cur = NULL \/ fuel = 0 THEN <<>>
    ELSE <<cur>> \o follow_target_first(pool, pool[cur].parent, fuel - 1)

RECURSIVE follow(_, _, _)
follow(pool, cur, fuel) ==
    IF cur = NULL \/ fuel = 0 THEN <<>>
    ELSE follow(pool, pool[cur].parent, fuel - 1) \o <<cur>>

get_path(e) == IF e.ret = NULL THEN <<>> ELSE follow(e.pool, e.ret, NumNodes + 1)

-----------------------------------------------------------------------------
(* Labels *)

\* planar_graph::get_xy: the nodes lie on a grid two columns wide
get_xy(n) == [x |-> n % 2, y |-> n \div 2]

\* geom::rectangle: the default one is empty
EmptyBox == [x1 |-> INF, y1 |-> INF, x2 |-> 0 - INF, y2 |-> 0 - INF]

box_grow(b, xy) ==
    [x1 |-> Min({b.x1, xy.x}), y1 |-> Min({b.y1, xy.y}),
     x2 |-> Max({b.x2, xy.x}), y2 |-> Max({b.y2, xy.y})]

box_merge(a, b) ==
    [x1 |-> Min({a.x1, b.x1}), y1 |-> Min({a.y1, b.y1}),
     x2 |-> Max({a.x2, b.x2}), y2 |-> Max({a.y2, b.y2})]

\* down_dfs_label(bytes_per_af_label_): empty intervals, empty box, no flag
EmptyLabel ==
    [rank |-> EmptyInterval, ids |-> EmptyInterval, bbox |-> EmptyBox, flags |-> {}]

\* down_dfs_label::merge
label_merge(a, b) ==
    [rank |-> interval_merge(a.rank, b.rank), ids |-> interval_merge(a.ids, b.ids),
     bbox |-> box_merge(a.bbox, b.bbox), flags |-> a.flags \cup b.flags]

\* the label s_lab grown by the rank, the postorder id, the coordinates and
\* the partition bit of node_id (byte part >> 3, bit part & 7 of flags_)
grow_with_node(s_lab, node_id, dfs_order, part) ==
    [rank |-> interval_grow(s_lab.rank, rank[node_id]),
     ids |-> interval_grow(s_lab.ids, dfs_order[node_id]),
     bbox |-> box_grow(s_lab.bbox, get_xy(node_id)),
     flags |-> s_lab.flags \cup {((part[node_id] \div 8) * 8) + (part[node_id] % 8)}]

\* the builder when no labelling is under way
NoLabelling ==
    [phase |-> "query", hook |-> "none", source |-> INF,
     first_move |-> [n \in Node |-> 0],
     part |-> [n \in Node |-> 0], bytes_per_af_label |-> 0,
     dfs_order |-> [n \in Node |-> INF], node_labels |-> [n \in Node |-> EmptyLabel],
     up_apex |-> [n \in Node |-> INF],
     lab |-> [n \in Node |-> <<>>], structural |-> [n \in Node |-> <<>>],
     sources |-> <<>>, selected |-> {}, ref |-> INF, apex_id |-> INF]

\* down_dfs_labelling::down_dfs_labelling
down_dfs_labelling(partitioning) ==
    LET max_id == Max({ partitioning[n] : n \in Node })
    IN [NoLabelling EXCEPT
            !.phase = "new", !.part = partitioning,
            !.bytes_per_af_label = (max_id \div 8) + (IF max_id % 8 # 0 THEN 1 ELSE 0)]

\* a slip: among the nodes of maximum rank the last one met wins
RECURSIVE apex_scan_last_wins(_, _)
apex_scan_last_wins(cur_id, apex_id) ==
    IF cur_id = NumNodes THEN apex_id
    ELSE apex_scan_last_wins(cur_id + 1,
                             IF rank[cur_id] >= rank[apex_id] THEN cur_id ELSE apex_id)

\* compute_labels: the linear scan for the node of maximum rank; the first
\* one met wins
RECURSIVE apex_scan(_, _)
apex_scan(cur_id, apex_id) ==
    IF cur_id = NumNodes THEN apex_id
    ELSE apex_scan(cur_id + 1, IF rank[cur_id] > rank[apex_id] THEN cur_id ELSE apex_id)

\* fch_down_dfs_expansion_policy::get_rank
get_rank(id) == rank[id]

\* compute_down_dijkstra_postorder: the scan of the policy for its apex
RECURSIVE internal_source_scan(_, _)
internal_source_scan(cur_id, internal_source_id) ==
    IF cur_id = NumNodes THEN internal_source_id
    ELSE internal_source_scan(cur_id + 1,
                              IF get_rank(cur_id) > get_rank(internal_source_id)
                              THEN cur_id ELSE internal_source_id)

\* every bit of an fm_label
AllMoves == 0 .. ((FM_BYTES * 8) - 1)

\* a slip: a strictly better predecessor adds its set to the one held
fm_on_generate_adds(l, pool, succ, from, edge_cost, edge_id) ==
    IF from = l.source
    THEN [l EXCEPT !.first_move[succ] = @ \cup {edge_id}]
    ELSE LET alt_g == pool[from].g + edge_cost
             g_val == IF pool[succ].sid = pool[from].sid THEN pool[succ].g ELSE INF
         IN IF alt_g <= g_val
            THEN [l EXCEPT !.first_move[succ] = @ \cup l.first_move[from]]
            ELSE l

\* on_generate_fn of compute_down_dijkstra_postorder: the set of optimal
\* first moves of succ
fm_on_generate(l, pool, succ, from, edge_cost, edge_id) ==
    IF from = l.source
    THEN [l EXCEPT !.first_move[succ] = @ \cup {edge_id}]
    ELSE LET alt_g == pool[from].g + edge_cost
             g_val == IF pool[succ].sid = pool[from].sid THEN pool[succ].g ELSE INF
         IN IF alt_g < g_val THEN [l EXCEPT !.first_move[succ] = l.first_move[from]]
            ELSE IF alt_g = g_val
                 THEN [l EXCEPT !.first_move[succ] = @ \cup l.first_move[from]]
                 ELSE l

\* on_generate_fn of improve_labels: one first move per node
improve_on_generate(l, pool, succ, from, edge_cost, edge_id) ==
    IF from = NULL THEN l
    ELSE IF from = l.source THEN [l EXCEPT !.first_move[succ] = edge_id]
    ELSE LET alt_g == pool[from].g + edge_cost
             g_val == IF pool[succ].sid = pool[from].sid THEN pool[succ].g ELSE INF
         IN IF alt_g < g_val THEN [l EXCEPT !.first_move[succ] = l.first_move[from]]
            ELSE l

\* on_expand_fn of improve_labels: the label of the first move of current
\* grows by current
improve_on_expand(l, current) ==
    IF current = l.source THEN l
    ELSE [l EXCEPT !.lab[l.source][l.first_move[current] + 1] =
                        grow_with_node(@, current, l.dfs_order, l.part)]

\* the engine calls the generate hook for every successor the policy
\* enumerates, before it looks at the successor, with the position of the
\* successor in the enumeration as edge id
apply_on_generate(l, e) ==
    LET succ == e.neis[e.i].to
        cost == e.neis[e.i].wt
    IN CASE l.hook = "first_move" -> fm_on_generate(l, e.pool, succ, e.current, cost, e.i - 1)
         [] l.hook = "improve" -> improve_on_generate(l, e.pool, succ, e.current, cost, e.i - 1)
         [] OTHER -> l

\* the engine calls the expand hook for every node it expands
apply_on_expand(l, current) ==
    IF l.hook = "improve" THEN improve_on_expand(l, current) ELSE l

\* label_fn of compute_down_dijkstra_postorder: postorder ids of the nodes
\* and id ranges of the down edges, by DFS from current_id over the down
\* edges whose head shares a first move with their tail.  st holds
\* node_labels, edge_labels, node_range and next_label; the result pairs
\* the new st with the range below current_id
RECURSIVE fch_label_fn(_, _, _)
RECURSIVE fch_label_edges(_, _, _, _, _)
\* a slip: every down edge is followed, whatever the first moves
fch_label_edges_any(st, fm, current_id, edge_idx, dfs_range) ==
    IF down_heads(current_id) + edge_idx > Len(adj[current_id])
    THEN [st |-> st, range |-> dfs_range]
    ELSE LET to == adj[current_id][down_heads(current_id) + edge_idx].to
             r == IF st.node_range[to].left = INF
                  THEN fch_label_fn(st, fm, to)
                  ELSE [st |-> st, range |-> st.node_range[to]]
             st1 == [r.st EXCEPT !.node_range[to] = r.range,
                                 !.edge_labels[current_id][edge_idx] = r.range]
         IN fch_label_edges(st1, fm, current_id, edge_idx + 1,
                            interval_merge(dfs_range, r.range))

fch_label_edges(st, fm, current_id, edge_idx, dfs_range) ==
    IF down_heads(current_id) + edge_idx > Len(adj[current_id])
    THEN [st |-> st, range |-> dfs_range]
    ELSE LET to == adj[current_id][down_heads(current_id) + edge_idx].to
         IN IF fm[to] \cap fm[current_id] = {}
            THEN fch_label_edges(st, fm, current_id, edge_idx + 1, dfs_range)
            ELSE LET r == IF st.node_range[to].left = INF
                          THEN fch_label_fn(st, fm, to)
                          ELSE [st |-> st, range |-> st.node_range[to]]
                     st1 == [r.st EXCEPT !.node_range[to] = r.range,
                                         !.edge_labels[current_id][edge_idx] = r.range]
                 IN fch_label_edges(st1, fm, current_id, edge_idx + 1,
                                    interval_merge(dfs_range, r.range))

fch_label_fn(st, fm, current_id) ==
    LET r == fch_label_edges(st, fm, current_id, 1, EmptyInterval)
        st1 == IF r.st.node_labels[current_id] = INF
               THEN [r.st EXCEPT !.node_labels[current_id] = r.st.next_label,
                                 !.next_label = @ + 1]
               ELSE r.st
    IN [st |-> st1, range |-> interval_grow(r.range, st1.node_labels[current_id])]

\* label_fn of compute_labels: postorder ids and down-closure labels by DFS
\* over the edges that do not lead up.  st holds dfs_order, node_labels,
\* lab and dfs_id.  label_edge is the body of the loop over the edges of
\* source_id for edge i; label_edges runs the loop from edge lo to edge hi
\* (the range is halved to keep the evaluation shallow; the order of the
\* edges is that of the loop).
\* st.active holds the nodes whose call is running.  A call for a node of
\* st.active finds the node without id, like the running call did, and
\* walks the same edges into the same call again: the recursion does not
\* return and the stack runs out (st.overflow)
RECURSIVE label_fn(_, _, _)
label_edge(st, part, source_id, i) ==
    LET to == adj[source_id][i].to
    IN IF st.overflow \/ rank[to] > rank[source_id] THEN st
       ELSE LET st1 == IF st.dfs_order[to] # INF THEN st
                       ELSE IF to \in st.active THEN [st EXCEPT !.overflow = TRUE]
                       ELSE label_fn(st, part, to)
            IN IF st1.overflow THEN st1
               ELSE [st1 EXCEPT
                       !.lab[source_id][i] = st1.node_labels[to],
                       !.node_labels[source_id] = label_merge(@, st1.node_labels[to])]

RECURSIVE label_edges(_, _, _, _, _)
label_edges(st, part, source_id, lo, hi) ==
    IF lo > hi THEN st
    ELSE IF lo = hi THEN label_edge(st, part, source_id, lo)
    ELSE LET first == label_edges(st, part, source_id, lo, (lo + hi) \div 2)
         IN IF first.dfs_id >= 0
            THEN label_edges(first, part, source_id, ((lo + hi) \div 2) + 1, hi)
            ELSE first

\* a slip: the id is handed out before the edges are walked
label_fn_id_first(st, part, source_id) ==
    LET st0 == IF st.dfs_order[source_id] = INF
               THEN [st EXCEPT !.dfs_order[source_id] = st.dfs_id, !.dfs_id = @ + 1]
               ELSE st
        st1 == label_edges([st0 EXCEPT !.active = @ \cup {source_id}],
                           part, source_id, 1, Len(adj[source_id]))
    IN IF st1.overflow THEN st1
       ELSE [st1 EXCEPT !.active = st.active,
                        !.node_labels[source_id] =
                            grow_with_node(@, source_id, st1.dfs_order, part)]

label_fn(st, part, source_id) ==
    LET st1 == label_edges([st EXCEPT !.active = @ \cup {source_id}],
                           part, source_id, 1, Len(adj[source_id]))
        st2 == IF st1.dfs_order[source_id] = INF
               THEN [st1 EXCEPT !.dfs_order[source_id] = st1.dfs_id, !.dfs_id = @ + 1]
               ELSE st1
    IN IF st1.overflow THEN st1
       ELSE [st2 EXCEPT !.active = st.active,
                        !.node_labels[source_id] =
                            grow_with_node(@, source_id, st2.dfs_order, part)]

\* up_label_fn of compute_labels: the up-apex of source_id by DFS over the
\* edges that do not lead down, then the down-closure label of that apex
\* merged into every such edge of source_id.  st holds up_apex,
\* node_labels, lab and apex_id, the local of the running call.
\* up_label_edge is the body of the first loop for edge i.  st.active and
\* st.overflow are those of label_fn: a node gets its up_apex when its call
\* returns
RECURSIVE up_label_fn(_, _)
up_label_edge(st, source_id, i) ==
    LET to == adj[source_id][i].to
    IN IF st.overflow \/ rank[to] < rank[source_id] THEN st
       ELSE LET st1 == IF st.up_apex[to] # INF THEN st
                       ELSE IF to \in st.active THEN [st EXCEPT !.overflow = TRUE]
                       ELSE [up_label_fn(st, to) EXCEPT !.apex_id = st.apex_id]
                succ_apex_id == st1.up_apex[to]
            IN IF st1.overflow THEN st1
               ELSE IF rank[succ_apex_id] > rank[st1.apex_id]
               THEN [st1 EXCEPT !.apex_id = succ_apex_id]
               ELSE st1

RECURSIVE up_label_edges(_, _, _, _)
up_label_edges(st, source_id, lo, hi) ==
    IF lo > hi THEN st
    ELSE IF lo = hi THEN up_label_edge(st, source_id, lo)
    ELSE LET first == up_label_edges(st, source_id, lo, (lo + hi) \div 2)
         IN IF first.apex_id >= 0
            THEN up_label_edges(first, source_id, ((lo + hi) \div 2) + 1, hi)
            ELSE first

up_label_fn(st, source_id) ==
    LET r == up_label_edges([st EXCEPT !.apex_id = source_id,
                                       !.active = @ \cup {source_id}],
                            source_id, 1, Len(adj[source_id]))
    IN IF r.overflow THEN r
       ELSE
       [r EXCEPT
          !.active = st.active,
          !.up_apex[source_id] = r.apex_id,
          !.lab[source_id] =
              Tabulate(LAMBDA i : IF rank[adj[source_id][i].to] < rank[source_id]
                                  THEN r.lab[source_id][i]
                                  ELSE label_merge(r.lab[source_id][i],
                                                   r.node_labels[r.apex_id]),
                       Len(adj[source_id]))]

RECURSIVE up_label_all(_, _)
up_label_all(st, n_id) ==
    IF n_id = NumNodes \/ st.overflow THEN st
    ELSE up_label_all(up_label_fn(st, n_id), n_id + 1)

\* down_dfs_labelling::compute_labels
compute_labels(l) ==
    LET apex_id == apex_scan(0, 0)
        st0 == [dfs_order |-> [n \in Node |-> INF],
                node_labels |-> [n \in Node |-> EmptyLabel],
                lab |-> [n \in Node |-> Tabulate(LAMBDA i : EmptyLabel, Len(adj[n]))],
                dfs_id |-> 0, active |-> {}, overflow |-> FALSE]
        down == label_fn(st0, l.part, apex_id)
        up == up_label_all([up_apex |-> [n \in Node |-> INF],
                            node_labels |-> down.node_labels, lab |-> down.lab,
                            apex_id |-> INF, active |-> {}, overflow |-> FALSE], 0)
    IN IF down.overflow \/ up.overflow THEN [l EXCEPT !.phase = "overflow"]
       ELSE [l EXCEPT !.phase = "labelled", !.dfs_order = down.dfs_order,
                      !.node_labels = down.node_labels, !.up_apex = up.up_apex,
                      !.lab = up.lab, !.structural = up.lab]

\* a slip: the labels of the selected nodes are kept
improve_select_keeps_labels(l) ==
    LET selected == { i \in Node : Len(adj[i]) >= RefineDegree }
        chosen(i) == i \in selected
    IN [l EXCEPT !.phase = "improving", !.hook = "improve",
                 !.selected = selected,
                 !.sources = SelectIdx([i \in 1 .. NumNodes |-> i - 1],
                                       LAMBDA i : chosen(i - 1), 1),
                 !.first_move = [n \in Node |-> 0]]

\* improve_labels up to its loop over the sources: the nodes of out-degree
\* RefineDegree or more are selected and all their edge labels reset
improve_select(l) ==
    LET selected == { i \in Node : Len(adj[i]) >= RefineDegree }
        chosen(i) == i \in selected
    IN [l EXCEPT !.phase = "improving", !.hook = "improve",
                 !.selected = selected,
                 !.sources = SelectIdx([i \in 1 .. NumNodes |-> i - 1],
                                       LAMBDA i : chosen(i - 1), 1),
                 !.lab = [n \in Node |->
                            IF n \in selected
                            THEN Tabulate(LAMBDA i : EmptyLabel, Len(adj[n]))
                            ELSE l.lab[n]],
                 !.first_move = [n \in Node |-> 0]]

\* the rank-biased policy without labels (fch_expansion_policy)
FchPolicy ==
    [kind |-> "fch", edge_labels |-> [n \in Node |-> <<>>],
     node_labels |-> [n \in Node |-> INF], s_label |-> INF, t_label |-> INF]

\* the cost a finished search reports: the g of the node it returned
Cost(e) == IF e.ret = NULL THEN INF ELSE e.pool[e.ret].g

-----------------------------------------------------------------------------
(* Inputs of a query *)

\* the heuristic tables a query against target t may run with: every table
\* bounded by hmax that never overestimates the distance to t (and is 0
\* where t cannot be reached); the zero heuristic when the query has no
\* target node
Heuristics(t) ==
    IF t \notin Node \/ hmax = 0 THEN { [n \in Node |-> 0] }
    ELSE LET d == DistTo(t)
         IN { h \in [Node -> 0 .. hmax] :
                \A n \in Node : h[n] <= (IF d[n] = INF THEN 0 ELSE d[n]) }

\* what a read through a null pointer may yield: nothing (the process
\* dies) or a value that happens to be a node id
Junk(s_ext, t_ext) ==
    IF s_ext # INF /\ (to_graph_id(s_ext) = INF \/ (t_ext # INF /\ to_graph_id(t_ext) = INF))
    THEN {NULL, Min(Node)} ELSE {NULL}

\* the policy of a plain graph search: every outgoing edge, no labels
GraphPolicy ==
    [kind |-> "graph", edge_labels |-> [n \in Node |-> <<>>],
     node_labels |-> [n \in Node |-> INF], s_label |-> INF, t_label |-> INF]

-----------------------------------------------------------------------------
(* The search engine as a state machine *)

Init ==
    /\ adj \in QueryGraphs
    /\ rank = [n \in Node |-> n]
    /\ eng = NewEngine
    /\ fresh = NewEngine
    /\ pol = GraphPolicy
    /\ limit = 1
    /\ hmax = MaxH
    /\ grid = NoGrid
    /\ lbl = NoLabelling

\* a caller starts a query: search() from its entry to the push of the start
Search ==
    /\ lbl.phase = "query"
    /\ eng.pc \in {"idle", "done"}
    /\ eng.searchid < limit
    /\ \E s \in ExtIds \cup {INF}, t \in ExtIds \cup {INF} :
         \E h \in Heuristics(t), junk \in Junk(s, t) :
            /\ eng' = search_begin(eng, s, t, h, junk)
            /\ fresh' = search_begin([NewEngine EXCEPT !.cost_cutoff = eng.cost_cutoff,
                                                       !.exp_cutoff = eng.exp_cutoff,
                                                       !.filter = eng.filter],
                                     s, t, h, junk)
    /\ UNCHANGED <<adj, rank, pol, limit, hmax, lbl, grid>>

\* one iteration of the while loop: peek, goal test, cutoffs, pop, expand
LoopHead ==
    /\ eng.pc = "loop"
    /\ \E top \in (IF eng.open = {} THEN {NULL} ELSE MinF(eng.pool, eng.open)) :
            /\ eng' = loop_head(eng, top)
            /\ fresh' = loop_head(fresh, top)
            /\ lbl' = IF loop_head(eng, top).nodes_expanded # eng.nodes_expanded
                      THEN apply_on_expand(lbl, top) ELSE lbl
    /\ UNCHANGED <<adj, rank, pol, limit, hmax, grid>>

\* one iteration of the successor loop
Successor ==
    /\ eng.pc = "succ"
    /\ eng' = process_succ(eng)
    /\ fresh' = process_succ(fresh)
    /\ lbl' = apply_on_generate(lbl, eng)
    /\ UNCHANGED <<adj, rank, pol, limit, hmax, grid>>

Next == Search \/ LoopHead \/ Successor

Spec == Init /\ [][Next]_vars

\* the same, with a loop that runs on: an iteration of the while loop or of
\* the successor loop that can be taken is taken
\* (on the graphs whose edges weigh nothing or MaxWeight)
RunGraphs == { GraphOf(wv) : wv \in [DOMAIN Slots -> {Absent, 0, MaxWeight}] }

InitRun ==
    /\ adj \in RunGraphs
    /\ rank = [n \in Node |-> n]
    /\ eng = NewEngine
    /\ fresh = NewEngine
    /\ pol = GraphPolicy
    /\ limit = 1
    /\ hmax = MaxH
    /\ grid = NoGrid
    /\ lbl = NoLabelling

SpecRun == InitRun /\ [][Next]_vars /\ WF_vars(LoopHead) /\ WF_vars(Successor)

-----------------------------------------------------------------------------
(* Reuse of one engine across queries *)

\* the graphs of the reuse and cutoff scenarios: every slot is absent or
\* has the weight MaxWeight
UniformGraphs == { GraphOf(wv) : wv \in [DOMAIN Slots -> {Absent, MaxWeight}] }

InitReuse ==
    /\ adj \in UniformGraphs
    /\ rank = [n \in Node |-> n]
    /\ eng = NewEngine
    /\ fresh = NewEngine
    /\ pol = GraphPolicy
    /\ limit = MaxSearches
    /\ hmax = 0
    /\ grid = NoGrid
    /\ lbl = NoLabelling

SpecReuse == InitReuse /\ [][Next]_vars

-----------------------------------------------------------------------------
(* Bounded-effort queries *)

CutoffValues == (0 .. MaxCutoff) \cup {INF}

\* flexible_astar::set_cost_cutoff
SetCostCutoff ==
    /\ eng.pc = "idle"
    /\ \E c \in CutoffValues : eng' = [eng EXCEPT !.cost_cutoff = c]
    /\ UNCHANGED <<adj, rank, fresh, pol, limit, hmax, lbl, grid>>

\* flexible_astar::set_max_expansions_cutoff
SetMaxExpansionsCutoff ==
    /\ eng.pc = "idle"
    /\ \E c \in CutoffValues : eng' = [eng EXCEPT !.exp_cutoff = c]
    /\ UNCHANGED <<adj, rank, fresh, pol, limit, hmax, lbl, grid>>

InitCutoff ==
    /\ adj \in UniformGraphs
    /\ rank = [n \in Node |-> n]
    /\ eng = NewEngine
    /\ fresh = NewEngine
    /\ pol = GraphPolicy
    /\ limit = 1
    /\ hmax = 0
    /\ grid = NoGrid
    /\ lbl = NoLabelling

NextCutoff == Next \/ SetCostCutoff \/ SetMaxExpansionsCutoff

SpecCutoff == InitCutoff /\ [][NextCutoff]_vars

-----------------------------------------------------------------------------
(* Queries on an engine composed with a filter *)

\* the nodes the filter of the scenario discards: none, or one node
FilterSets == {{}} \cup { {n} : n \in Node }

InitHooks ==
    /\ adj \in QueryGraphs
    /\ rank = [n \in Node |-> n]
    /\ \E F \in FilterSets :
          /\ eng = [NewEngine EXCEPT !.filter = F]
          /\ fresh = [NewEngine EXCEPT !.filter = F]
    /\ pol = GraphPolicy
    /\ limit = 1
    /\ hmax = 0
    /\ grid = NoGrid
    /\ lbl = NoLabelling

SpecHooks == InitHooks /\ [][Next]_vars

-----------------------------------------------------------------------------
(* The down-DFS policy: construction, then queries with and without pruning *)

ZeroHeuristic == [n \in Node |-> 0]

InitFch ==
    /\ adj \in ChGraphs
    /\ rank = ChRank
    /\ eng = NewEngine
    /\ fresh = NewEngine
    /\ pol = FchPolicy
    /\ limit = 0
    /\ hmax = 0
    /\ grid = NoGrid
    /\ lbl = [NoLabelling EXCEPT !.phase = "construct"]

\* compute_down_dijkstra_postorder up to the Dijkstra search from the apex
FirstMoveSearch ==
    /\ lbl.phase = "construct"
    /\ LET internal_source_id == internal_source_scan(0, 0)
       IN /\ pol' = [pol EXCEPT
                        !.node_labels = [n \in Node |-> INF],
                        !.edge_labels =
                            [n \in Node |->
                                Tabulate(LAMBDA j : EmptyInterval,
                                         Len(adj[n]) - down_heads(n))]]
          /\ lbl' = [lbl EXCEPT !.phase = "dijkstra", !.hook = "first_move",
                                !.source = internal_source_id,
                                !.first_move = [n \in Node |-> {}]]
          /\ eng' = search_begin(NewEngine, internal_source_id, INF, ZeroHeuristic, NULL)
          /\ fresh' = search_begin(NewEngine, internal_source_id, INF, ZeroHeuristic, NULL)
    /\ UNCHANGED <<adj, rank, limit, hmax, grid>>

\* compute_down_dijkstra_postorder after the search: the apex takes every
\* first move, label_fn labels nodes and down edges; the policy is ready
LabelFn ==
    /\ lbl.phase = "dijkstra"
    /\ eng.pc = "done"
    /\ LET fm == [lbl.first_move EXCEPT ![lbl.source] = AllMoves]
           r == fch_label_fn([node_labels |-> pol.node_labels,
                              edge_labels |-> pol.edge_labels,
                              node_range |-> [n \in Node |-> EmptyInterval],
                              next_label |-> 0], fm, lbl.source)
       IN /\ pol' = [pol EXCEPT !.kind = "fch_dfs",
                                !.node_labels = r.st.node_labels,
                                !.edge_labels = r.st.edge_labels]
          /\ lbl' = [lbl EXCEPT !.phase = "ready", !.hook = "none", !.first_move = fm]
    /\ eng' = NewEngine
    /\ fresh' = NewEngine
    /\ UNCHANGED <<adj, rank, limit, hmax, grid>>

\* a query answered by a new engine over the rank-biased policy without
\* the label filter
UnprunedQuery ==
    /\ lbl.phase = "ready"
    /\ \E s \in Node, t \in Node :
          /\ eng' = search_begin(NewEngine, s, t, ZeroHeuristic, NULL)
          /\ fresh' = search_begin(NewEngine, s, t, ZeroHeuristic, NULL)
    /\ pol' = [pol EXCEPT !.kind = "fch"]
    /\ lbl' = [lbl EXCEPT !.phase = "unpruned"]
    /\ UNCHANGED <<adj, rank, limit, hmax, grid>>

\* the same query answered by a new engine over the down-DFS policy;
\* generate_start_node and generate_target_node note the endpoints' labels
PrunedQuery ==
    /\ lbl.phase = "unpruned"
    /\ eng.pc = "done"
    /\ eng' = search_begin(NewEngine, eng.query[1], eng.query[2], ZeroHeuristic, NULL)
    /\ fresh' = search_begin(NewEngine, eng.query[1], eng.query[2], ZeroHeuristic, NULL)
    /\ pol' = [pol EXCEPT !.kind = "fch_dfs",
                          !.s_label = pol.node_labels[eng.query[1]],
                          !.t_label = pol.node_labels[eng.query[2]]]
    /\ lbl' = [lbl EXCEPT !.phase = "pruned", !.ref = Cost(eng)]
    /\ UNCHANGED <<adj, rank, limit, hmax, grid>>

NextFch ==
    FirstMoveSearch \/ LabelFn \/ UnprunedQuery \/ PrunedQuery \/ LoopHead \/ Successor

SpecFch == InitFch /\ [][NextFch]_vars

-----------------------------------------------------------------------------
(* The construction of the down-DFS policy on hierarchies with ties *)

\* the hierarchies of the first-move scenarios: every pair absent, of weight
\* 0 or of weight MaxWeight
TieChGraphs ==
    { g \in { SymGraphOf(wv, ChRank) : wv \in [DOMAIN Pairs -> {Absent, 0, MaxWeight}] } :
        IsCH(g, ChRank) }

\* g with a second edge between node 0 and the head of its k-th edge, one
\* unit heavier than the k-th edge (k = 0: g itself)
Parallel(g, k) ==
    IF k = 0 THEN g
    ELSE LET h == g[0][k].to
             w == g[0][k].wt + 1
         IN [g EXCEPT ![0] = fch_sort_successors(@ \o <<[to |-> h, wt |-> w]>>, 0, ChRank),
                      ![h] = fch_sort_successors(@ \o <<[to |-> 0, wt |-> w]>>, h, ChRank)]

InitFm ==
    /\ rank = ChRank
    /\ \E g \in TieChGraphs : \E k \in 0 .. Len(g[0]) : adj = Parallel(g, k)
    /\ eng = NewEngine
    /\ fresh = NewEngine
    /\ pol = FchPolicy
    /\ limit = 0
    /\ hmax = 0
    /\ grid = NoGrid
    /\ lbl = [NoLabelling EXCEPT !.phase = "construct"]

NextFm == FirstMoveSearch \/ LabelFn \/ LoopHead \/ Successor

SpecFm == InitFm /\ [][NextFm]_vars

-----------------------------------------------------------------------------
(* The label builder: compute_labels, then improve_labels *)

\* the partitionings of the scenarios: node n in part n mod k; their
\* largest part id is no multiple of 8, so every flag byte exists
Partitionings == { [n \in Node |-> n % k] : k \in 2 .. MaxParts }

InitLabel ==
    /\ rank = ChRank
    /\ adj \in LabelGraphs
    /\ eng = NewEngine
    /\ fresh = NewEngine
    /\ pol = FchPolicy
    /\ limit = 0
    /\ hmax = 0
    /\ grid = NoGrid
    /\ lbl \in { down_dfs_labelling(p) : p \in Partitionings }

\* flags_ holds bytes_per_af_label_ bytes and label_fn indexes it unchecked
\* with part >> 3: a write past its end is undefined, the run may carry on
\* with the labels it built or be stopped
compute_labels_outcomes(l) ==
    LET done == compute_labels(l)
    IN  IF \E n \in Node : /\ done.dfs_order[n] # INF
                           /\ (l.part[n] \div 8) >= l.bytes_per_af_label
        THEN {done, [l EXCEPT !.phase = "corrupt"]}
        ELSE {done}

\* down_dfs_labelling::compute_labels
ComputeLabels ==
    /\ lbl.phase = "new"
    /\ lbl' \in compute_labels_outcomes(lbl)
    /\ UNCHANGED <<adj, rank, eng, fresh, pol, limit, hmax, grid>>

\* improve_labels up to its loop: sources selected, their labels reset, the
\* Dijkstra engine built with both hooks
ImproveLabels ==
    /\ lbl.phase = "labelled"
    /\ lbl' = improve_select(lbl)
    /\ eng' = NewEngine
    /\ fresh' = NewEngine
    /\ UNCHANGED <<adj, rank, pol, limit, hmax, grid>>

\* one turn of the loop over the sources: a search without target from the
\* next source, on the engine the previous turns used
ImproveSource ==
    /\ lbl.phase = "improving"
    /\ eng.pc \in {"idle", "done"}
    /\ lbl.sources # <<>>
    /\ lbl' = [lbl EXCEPT !.source = Head(lbl.sources), !.sources = Tail(lbl.sources)]
    /\ eng' = search_begin(eng, Head(lbl.sources), INF, ZeroHeuristic, NULL)
    /\ fresh' = search_begin(NewEngine, Head(lbl.sources), INF, ZeroHeuristic, NULL)
    /\ UNCHANGED <<adj, rank, pol, limit, hmax, grid>>

\* improve_labels returns after the last source
ImproveReturn ==
    /\ lbl.phase = "improving"
    /\ eng.pc \in {"idle", "done"}
    /\ lbl.sources = <<>>
    /\ lbl' = [lbl EXCEPT !.phase = "improved", !.hook = "none"]
    /\ UNCHANGED <<adj, rank, eng, fresh, pol, limit, hmax, grid>>

NextLabel ==
    ComputeLabels \/ ImproveLabels \/ ImproveSource \/ ImproveReturn
        \/ LoopHead \/ Successor

SpecLabel == InitLabel /\ [][NextLabel]_vars

-----------------------------------------------------------------------------
(* improve_labels on hierarchies with parallel edges of different weight *)

\* g with the edge list of node hub repeated like Pad repeats it, every
\* copy of an edge one unit heavier than the edge
PadHeavier(g, hub) ==
    [n \in Node |->
        IF n # hub \/ g[n] = <<>> THEN g[n]
        ELSE LET copies == Repeat(g[n], ((RefineDegree - 1) \div Len(g[n])) + 1)
                 heavier(i) == IF i <= Len(g[n]) THEN copies[i]
                               ELSE [copies[i] EXCEPT !.wt = @ + 1]
             IN fch_sort_successors(Tabulate(heavier, Len(copies)), n, ChRank)]

InitRefine ==
    /\ rank = ChRank
    /\ \E g \in UniformChGraphs : \E hub \in Node : adj = PadHeavier(g, hub)
    /\ eng = NewEngine
    /\ fresh = NewEngine
    /\ pol = FchPolicy
    /\ limit = 0
    /\ hmax = 0
    /\ grid = NoGrid
    /\ lbl \in { down_dfs_labelling(p) : p \in Partitionings }

SpecRefine == InitRefine /\ [][NextLabel]_vars

-----------------------------------------------------------------------------
(* The two label builders on one hierarchy: the policy, then the labelling *)

InitDfs ==
    /\ rank = ChRank
    /\ \E g \in TieChGraphs : \E k \in 0 .. Len(g[0]) : adj = Parallel(g, k)
    /\ eng = NewEngine
    /\ fresh = NewEngine
    /\ pol = FchPolicy
    /\ limit = 0
    /\ hmax = 0
    /\ grid = NoGrid
    /\ lbl \in { [down_dfs_labelling(p) EXCEPT !.phase = "construct"] : p \in Partitionings }

\* down_dfs_labelling::compute_labels on the hierarchy of the ready policy
ComputeLabelsToo ==
    /\ lbl.phase = "ready"
    /\ lbl' = compute_labels(lbl)
    /\ UNCHANGED <<adj, rank, eng, fresh, pol, limit, hmax, grid>>

NextDfs == FirstMoveSearch \/ LabelFn \/ ComputeLabelsToo \/ LoopHead \/ Successor

SpecDfs == InitDfs /\ [][NextDfs]_vars

-----------------------------------------------------------------------------
(* compute_labels on graphs with any rank vector *)

\* the symmetric graphs of the scenarios: every pair absent or of weight
\* MaxWeight, under the rank vector rk
RankedGraphs(rk) == { SymGraphOf(wv, rk) : wv \in [DOMAIN Pairs -> {Absent, MaxWeight}] }

InitUp ==
    /\ rank \in RankVectors
    /\ adj \in RankedGraphs(rank)
    /\ eng = NewEngine
    /\ fresh = NewEngine
    /\ pol = FchPolicy
    /\ limit = 0
    /\ hmax = 0
    /\ grid = NoGrid
    /\ lbl \in { down_dfs_labelling(p) : p \in Partitionings }

NextUp == ComputeLabels

SpecUp == InitUp /\ [][NextUp]_vars

-----------------------------------------------------------------------------
(* compute_labels under partitionings of any width *)

\* partition ids on both sides of a byte boundary of the flag vector
PartIds == {0, 7, 8}

InitBytes ==
    /\ rank = ChRank
    /\ adj \in UniformChGraphs
    /\ eng = NewEngine
    /\ fresh = NewEngine
    /\ pol = FchPolicy
    /\ limit = 0
    /\ hmax = 0
    /\ grid = NoGrid
    /\ lbl \in { down_dfs_labelling(p) : p \in [Node -> PartIds] }

NextBytes == ComputeLabels

SpecBytes == InitBytes /\ [][NextBytes]_vars

-----------------------------------------------------------------------------
(* The two-phase policy under the engine *)

\* the arc flags an edge may carry: set for both partitions, or for
\* partition 0 only
FlagSets == { {0, 1}, {0} }

\* the flags of the edges of every node, in the order the policy enumerates
\* them, when slot i carries the flags fl[i]
FlagsOf(wv, fl, backward) ==
    [n \in Node |->
        LET mine(i) == wv[i] # Absent /\ Slots[i][IF backward THEN 2 ELSE 1] = n
        IN SelectIdx(fl, mine, 1)]

InitChase ==
    /\ rank = [n \in Node |-> n]
    /\ eng = NewEngine
    /\ fresh = NewEngine
    /\ limit = 1
    /\ hmax = 0
    /\ grid = NoGrid
    /\ lbl = [NoLabelling EXCEPT !.phase = "chase"]
    /\ \E wv \in [DOMAIN Slots -> {Absent, MaxWeight}], backward \in BOOLEAN :
          \E fl \in { f \in [DOMAIN Slots -> FlagSets] :
                         \A i \in DOMAIN Slots : wv[i] = Absent => f[i] = {0, 1} } :
             /\ adj = GraphOf(wv)
             /\ pol = chase_expansion_policy(FlagsOf(wv, fl, backward), backward)

\* a query on the engine composed with the two-phase policy: search calls
\* generate_start_node and generate_target_node; the arc-flags filter knows
\* the target
ChaseSearch ==
    /\ lbl.phase = "chase"
    /\ eng.pc \in {"idle", "done"}
    /\ eng.searchid < limit
    /\ \E s \in Node, t \in Node :
          /\ eng' = search_begin(eng, s, t, ZeroHeuristic, NULL)
          /\ fresh' = search_begin(NewEngine, s, t, ZeroHeuristic, NULL)
          /\ pol' = [chase_generate(chase_generate(pol)) EXCEPT
                          !.af_target = t, !.last = "generate"]
    /\ UNCHANGED <<adj, rank, limit, hmax, lbl, grid>>

\* the driver of the search calls begin_phase2, before a query or between
\* two expansions of a running one
BeginPhase2 ==
    /\ lbl.phase = "chase"
    /\ eng.pc \in {"idle", "loop", "done"}
    /\ pol' = [begin_phase2(pol) EXCEPT !.last = "begin_phase2"]
    /\ UNCHANGED <<adj, rank, eng, fresh, limit, hmax, lbl, grid>>

NextChase == ChaseSearch \/ BeginPhase2 \/ LoopHead \/ Successor

SpecChase == InitChase /\ [][NextChase]_vars

-----------------------------------------------------------------------------
(* The choice of the apex by the two label builders *)

InitApex ==
    /\ rank \in RankVectors
    /\ adj = [n \in Node |-> <<>>]
    /\ eng = NewEngine
    /\ fresh = NewEngine
    /\ pol = FchPolicy
    /\ limit = 0
    /\ hmax = 0
    /\ grid = NoGrid
    /\ lbl = [NoLabelling EXCEPT !.phase = "scan"]

\* compute_labels finds its apex
ApexOfLabelling ==
    /\ lbl.phase = "scan" /\ lbl.apex_id = INF
    /\ lbl' = [lbl EXCEPT !.apex_id = apex_scan(0, 0)]
    /\ UNCHANGED <<adj, rank, eng, fresh, pol, limit, hmax, grid>>

\* compute_down_dijkstra_postorder finds its apex
ApexOfPolicy ==
    /\ lbl.phase = "scan" /\ lbl.source = INF
    /\ lbl' = [lbl EXCEPT !.source = internal_source_scan(0, 0)]
    /\ UNCHANGED <<adj, rank, eng, fresh, pol, limit, hmax, grid>>

NextApex == ApexOfLabelling \/ ApexOfPolicy

SpecApex == InitApex /\ [][NextApex]_vars

-----------------------------------------------------------------------------
(* Vocabulary of the claims *)

\* the episode's view of node n: its fields when its stamp is current
Touched(e, n) == e.pool[n].sid = e.searchid

\* the nodes marked expanded in the running episode
ExpandedSet(e) == { n \in Node : Touched(e, n) /\ e.pool[n].expanded }

\* the query named two nodes of the graph (or a start node and no target)
ValidQuery(e) ==
    /\ to_graph_id(e.query[1]) # INF
    /\ e.query[2] = INF \/ to_graph_id(e.query[2]) # INF

\* search has returned a target node to its caller
Found(e) == e.pc = "done" /\ e.ret # NULL

\* h never decreases along an edge by more than the edge's weight
Consistent(h) ==
    \A n \in Node : \A i \in DOMAIN adj[n] : h[n] <= adj[n][i].wt + h[adj[n][i].to]

\* the nodes that s reaches through the edges of the graph
Reach(s) == { n \in Node : DistTo(n)[s] < INF }

-----------------------------------------------------------------------------
(* C1: optimality of the returned cost *)

\* C1 as stated: with an admissible heuristic (every table of Heuristics is
\* one), no filter and no cutoff, the g of a returned target is the
\* shortest start-to-target distance of the graph.
C1_OptimalIfAdmissible ==
    (Found(eng) /\ ValidQuery(eng))
        => eng.pool[eng.ret].g = DistTo(eng.target)[eng.start]

\* C1 amended: the same, for heuristics that are consistent as well.
C1_OptimalIfConsistent ==
    (Found(eng) /\ ValidQuery(eng) /\ Consistent(eng.hv))
        => eng.pool[eng.ret].g = DistTo(eng.target)[eng.start]

\* a target found at positive cost over at least two edges, under a
\* consistent heuristic that is not the zero heuristic
C1_Witness ==
    /\ Found(eng) /\ ValidQuery(eng) /\ Consistent(eng.hv)
    /\ \E n \in Node : eng.hv[n] > 0
    /\ eng.pool[eng.ret].g > 0
    /\ Len(get_path(eng)) >= 3

-----------------------------------------------------------------------------
(* C2: the parent chain of a returned node *)

\* C2: when search returns a node, the parent chain from it ends at the
\* start node, which alone has no parent; every (parent, child) pair of the
\* chain is an edge the policy enumerates for the parent, at a cost that is
\* the difference of the two g values, so the returned g is the sum of the
\* edge costs; get_path lists the chain from start to target.  On the
\* unit-weight chain 0-1-2-3 the query (0, 3) yields <<0, 1, 2, 3>>, cost 3.
C2_ParentChain ==
    (Found(eng) /\ ValidQuery(eng)) =>
        LET path == get_path(eng)
            g(n) == eng.pool[n].g
        IN /\ Len(path) >= 1 /\ Len(path) <= NumNodes
           /\ path[1] = eng.start
           /\ path[Len(path)] = eng.ret /\ eng.ret = eng.target
           /\ \A k \in DOMAIN path : (eng.pool[path[k]].parent = NULL) <=> (k = 1)
           /\ g(path[1]) = 0
           /\ \A k \in 1 .. (Len(path) - 1) :
                /\ eng.pool[path[k + 1]].parent = path[k]
                /\ \E i \in DOMAIN expand(path[k], eng.pool[path[k]].parent) :
                      LET ed == expand(path[k], eng.pool[path[k]].parent)[i]
                      IN ed.to = path[k + 1] /\ g(path[k + 1]) = g(path[k]) + ed.wt
           /\ (/\ adj = GraphOf(<<1, Absent, 1, 1, Absent>>)
               /\ eng.start = 0 /\ eng.target = 3)
                  => path = <<0, 1, 2, 3>> /\ g(eng.ret) = 3

\* the scenario of the claim: the chain graph, queried end to end
C2_Witness ==
    /\ Found(eng) /\ ValidQuery(eng)
    /\ adj = GraphOf(<<1, Absent, 1, 1, Absent>>)
    /\ eng.start = 0 /\ eng.target = 3
    /\ get_path(eng) = <<0, 1, 2, 3>>

-----------------------------------------------------------------------------
(* C8: queries whose endpoints have no internal mapping *)

\* C8: when the start or the target id of the query has no internal
\* mapping, search has returned the failure value at once: it read no field
\* of the missing node, pushed nothing and expanded nothing.
C8_FailsImmediately ==
    (eng.searchid > 0 /\ eng.query[1] # INF /\ ~ValidQuery(eng)) =>
        /\ eng.pc = "done" /\ eng.ret = NULL
        /\ ~eng.deref
        /\ eng.open = {} /\ eng.nodes_expanded = 0

-----------------------------------------------------------------------------
(* C9: exhausting the frontier *)

\* C9: no node is expanded twice, and a query without cutoffs whose target
\* the start cannot reach (or that names no target) ends with the frontier
\* empty and the no-path value, having expanded exactly the nodes the start
\* reaches.
C9_Exhaustion ==
    /\ ValidQuery(eng) /\ eng.pc \in {"loop", "succ", "done"}
          => eng.nodes_expanded = Cardinality(ExpandedSet(eng))
    /\ (eng.pc = "done" /\ ValidQuery(eng))
          => LET reached == Reach(eng.start)
             IN  (eng.target = INF \/ eng.target \notin reached)
                    => /\ eng.why = "exhausted" /\ eng.ret = NULL /\ eng.open = {}
                       /\ ExpandedSet(eng) = reached

\* a search for a target that the start cannot reach, ended after the
\* expansion of three nodes or more
C9_Witness ==
    /\ eng.pc = "done" /\ ValidQuery(eng)
    /\ eng.target \in Node /\ eng.target \notin Reach(eng.start)
    /\ eng.why = "exhausted"
    /\ eng.nodes_expanded >= 3

-----------------------------------------------------------------------------
(* C5: reuse of the engine across queries *)

\* what an episode can observe of an engine: the nodes stamped with the
\* current search id (stamps themselves left out), the frontier, the
\* counters, the position in the loop and the result
View(e) ==
    [pool |-> [n \in Node |-> IF Touched(e, n) THEN [e.pool[n] EXCEPT !.sid = 1]
                              ELSE FreshNode],
     open |-> e.open,
     nodes_expanded |-> e.nodes_expanded, nodes_generated |-> e.nodes_generated,
     pc |-> e.pc, start |-> e.start, target |-> e.target,
     current |-> e.current, neis |-> e.neis, i |-> e.i,
     ret |-> e.ret, why |-> e.why, path |-> get_path(e)]

\* C5: at every step of every query, the engine that has served earlier
\* queries shows the same nodes, frontier, counters, outcome, g and parent
\* path as an engine constructed for that query alone and driven alike.
C5_ReuseEqualsFresh == eng.searchid >= 1 => View(eng) = View(fresh)

\* a second query on the same engine has returned a path of three nodes
\* or more while the pool still holds a node expanded by the first query
C5_Witness ==
    /\ eng.searchid = 2 /\ fresh.searchid = 1
    /\ Found(eng) /\ ValidQuery(eng)
    /\ Len(get_path(eng)) >= 3
    /\ \E n \in Node : eng.pool[n].sid = 1 /\ eng.pool[n].expanded

-----------------------------------------------------------------------------
(* C6: an expansion cutoff of 0 *)

\* C6 as stated: with the expansion cutoff at 0 every query returns no-path.
C6_CutoffBeforeGoal ==
    (eng.pc = "done" /\ ValidQuery(eng) /\ eng.exp_cutoff = 0) => eng.ret = NULL

\* C6 amended: with the expansion cutoff at 0 no node is expanded, and the
\* query returns no-path unless its start is its target; then the goal test
\* on the frontier minimum comes first and the start is returned with g = 0.
C6_CutoffAfterGoalTest ==
    (eng.pc = "done" /\ ValidQuery(eng) /\ eng.exp_cutoff = 0) =>
        /\ eng.nodes_expanded = 0
        /\ (eng.ret # NULL) <=> (eng.start = eng.target)
        /\ eng.ret # NULL => eng.ret = eng.start /\ eng.pool[eng.ret].g = 0

\* the case of the claim: cutoff 0 and a query from a node to itself
C6_Witness ==
    /\ eng.pc = "done" /\ ValidQuery(eng) /\ eng.exp_cutoff = 0
    /\ eng.start = eng.target
    /\ eng.ret = eng.start

-----------------------------------------------------------------------------
(* C7: what the caller can tell apart *)

Cutoffs == {"cost_cutoff", "exp_cutoff"}

\* C7 as stated: the value search returns tells the three terminations
\* apart; a search ended by a cutoff does not return the value (NULL) that
\* an exhausted frontier returns.
C7_ThreeOutcomes ==
    (eng.pc = "done" /\ ValidQuery(eng)) =>
        /\ eng.why = "found" => eng.ret = eng.target
        /\ eng.why = "exhausted" => eng.ret = NULL
        /\ eng.why \in Cutoffs => eng.ret \notin {NULL, eng.target}

\* C7 amended: search returns one of two values.  It returns the target
\* node exactly when the goal test succeeded, and NULL both when the
\* frontier ran empty and when a cutoff ended the loop with a frontier
\* minimum dearer than the cost cutoff or with the expansion budget used up.
C7_TwoOutcomes ==
    (eng.pc = "done" /\ ValidQuery(eng)) =>
        /\ eng.why \in {"found", "exhausted"} \cup Cutoffs
        /\ (eng.ret # NULL) <=> (eng.why = "found")
        /\ eng.why = "found" => eng.ret = eng.target /\ eng.ret \in eng.open
        /\ eng.why = "exhausted" => eng.open = {}
        /\ eng.why = "cost_cutoff" =>
              /\ eng.open # {}
              /\ \A n \in eng.open : eng.pool[n].f > eng.cost_cutoff
        /\ eng.why = "exp_cutoff" =>
              /\ eng.open # {}
              /\ eng.nodes_expanded >= eng.exp_cutoff

\* a cutoff ended a search whose target the start reaches: the caller
\* receives NULL, as for an exhausted frontier
C7_Witness ==
    /\ eng.pc = "done" /\ ValidQuery(eng)
    /\ eng.why = "exp_cutoff" /\ eng.ret = NULL
    /\ eng.target \in Reach(eng.start)

-----------------------------------------------------------------------------
(* C3: label pruning in down-travel *)

\* the apex reaches every node over down edges
ApexReachesAll == DownReach(apex_scan(0, 0)) = Node

\* C3: for every (source, target) pair, the search over the down-DFS policy
\* with label pruning returns the cost that the same search returns with
\* the label filter left out (on hierarchies whose apex reaches every node
\* over down edges).
C3_PrunedEqualsUnpruned ==
    (lbl.phase = "pruned" /\ eng.pc = "done" /\ ApexReachesAll)
        => Cost(eng) = lbl.ref

-----------------------------------------------------------------------------
(* C4: the labels of compute_labels *)

\* the label l holds the postorder id, the rank, the coordinates and the
\* partition bit of node n
LabelHolds(l, n) ==
    /\ IntervalContains(l.ids, lbl.dfs_order[n])
    /\ IntervalContains(l.rank, rank[n])
    /\ l.bbox.x1 <= get_xy(n).x /\ get_xy(n).x <= l.bbox.x2
    /\ l.bbox.y1 <= get_xy(n).y /\ get_xy(n).y <= l.bbox.y2
    /\ lbl.part[n] \in l.flags

\* C4: after compute_labels, for every node s of the graph and every down
\* edge (s, t), the label of the edge holds the attributes of every node
\* that t reaches over down edges, t included.
C4_DownClosureOfEveryNode ==
    lbl.phase = "labelled" =>
        \A s \in Node : \A i \in DOMAIN adj[s] :
            rank[adj[s][i].to] < rank[s] =>
                \A n \in DownReach(adj[s][i].to) : LabelHolds(lbl.lab[s][i], n)

-----------------------------------------------------------------------------
(* C10: the labels of improve_labels *)

\* interval a lies within interval b (an empty interval lies within any)
IntervalWithin(a, b) == a.left > a.right \/ (b.left <= a.left /\ a.right <= b.right)

\* label a is contained in label b, component by component
LabelWithin(a, b) ==
    /\ IntervalWithin(a.ids, b.ids)
    /\ IntervalWithin(a.rank, b.rank)
    /\ IntervalWithin([left |-> a.bbox.x1, right |-> a.bbox.x2],
                      [left |-> b.bbox.x1, right |-> b.bbox.x2])
    /\ IntervalWithin([left |-> a.bbox.y1, right |-> a.bbox.y2],
                      [left |-> b.bbox.y1, right |-> b.bbox.y2])
    /\ a.flags \subseteq b.flags

\* the smallest label that holds the attributes of the nodes of S
LabelOf(S) ==
    IF S = {} THEN EmptyLabel
    ELSE [rank |-> [left |-> Min({ rank[n] : n \in S }),
                    right |-> Max({ rank[n] : n \in S })],
          ids |-> [left |-> Min({ lbl.dfs_order[n] : n \in S }),
                   right |-> Max({ lbl.dfs_order[n] : n \in S })],
          bbox |-> [x1 |-> Min({ get_xy(n).x : n \in S }),
                    y1 |-> Min({ get_xy(n).y : n \in S }),
                    x2 |-> Max({ get_xy(n).x : n \in S }),
                    y2 |-> Max({ get_xy(n).y : n \in S })],
          flags |-> { lbl.part[n] : n \in S }]

\* the Dijkstra run of improve_labels from lbl.source has ended
RefinedSource == lbl.phase = "improving" /\ lbl.hook = "improve" /\ eng.pc = "done"

\* the nodes that run expanded with edge i of the source as first move
Bucket(i) ==
    { n \in ExpandedSet(eng) \ {lbl.source} : lbl.first_move[n] = i - 1 }

-----------------------------------------------------------------------------
(* C11: the mode of the two-phase policy *)

InPhase2(p) == p.fn_filter_arc = "phase2_filter_fn"

\* C11: the policy is in phase 1 after construction; at every moment it is
\* in phase 2 exactly when the most recent call among begin_phase2,
\* generate_start_node and generate_target_node was begin_phase2; a step of
\* the engine that expands a node leaves the mode as it was.
C11_ModeFollowsLastCall ==
    /\ (pol.kind = "chase" /\ pol.last = "none") => ~InPhase2(pol)
    /\ [][/\ pol'.kind = "chase" => (InPhase2(pol') <=> pol'.last = "begin_phase2")
          /\ (pol.kind = "chase" /\ eng'.nodes_expanded > eng.nodes_expanded)
                => InPhase2(pol') = InPhase2(pol)]_vars

\* a query runs in phase 2: begin_phase2 was called after the query's start
\* and target were generated, and a node has been expanded since
C11_Witness ==
    /\ pol.kind = "chase" /\ eng.searchid = 1
    /\ eng.pc = "succ" /\ eng.nodes_expanded >= 2
    /\ InPhase2(pol) /\ pol.last = "begin_phase2"

-----------------------------------------------------------------------------
(* C12: what the two phases filter *)

\* the edges of a successor list, as a set
EdgeSet(neis) == { neis[i] : i \in DOMAIN neis }

\* C12: in phase 1 the arc filter of the two-phase policy rejects no edge of
\* any node; in phase 2 it rejects an edge exactly when the arc-flags
\* filter rejects it; the successors of a node in phase 2 are among its
\* successors in phase 1, and the list the engine works through is the one
\* of the current phase.
C12_PhaseFilters ==
    pol.kind = "chase" =>
        /\ \A n \in Node : \A i \in DOMAIN chase_edges(pol, n) :
              /\ ~InPhase2(pol) => ~filter_arc(pol, n, i)
              /\ InPhase2(pol) => (filter_arc(pol, n, i) <=> af_filter(pol, n, i))
        /\ \A n \in Node :
              /\ chase_expand(chase_generate(pol), n) = chase_edges(pol, n)
              /\ EdgeSet(chase_expand(begin_phase2(pol), n))
                    \subseteq EdgeSet(chase_expand(chase_generate(pol), n))
        /\ eng.pc = "succ" => eng.neis = chase_expand(pol, eng.current)

\* a node expanded in phase 2 with fewer successors than it has edges
C12_Witness ==
    /\ pol.kind = "chase" /\ InPhase2(pol)
    /\ eng.pc = "succ"
    /\ Len(eng.neis) < Len(chase_edges(pol, eng.current))
    /\ \E i \in DOMAIN chase_edges(pol, eng.current) : af_filter(pol, eng.current, i)

-----------------------------------------------------------------------------
(* C13: the relax and no-relax hooks *)

-----------------------------------------------------------------------------
(* C14: what the down-DFS policy enumerates *)

\* the engine holds the successor list of the node it expanded last
JustExpanded(e) ==
    e.current # NULL /\ (e.pc = "succ" \/ (e.pc = "loop" /\ e.i = 1))

\* C14: when the engine expands a node over the down-DFS policy, the
\* successor list is the node's whole adjacency if the node has no parent
\* or outranks its parent; otherwise it consists of the edges at the
\* positions after the node's up edges whose label the filter does not
\* reject for the target, in adjacency order, and all of them lead down.
\* The list is a function of the node, its parent's rank and the labels.
C14_ExpandRule ==
    (pol.kind = "fch_dfs" /\ JustExpanded(eng)) =>
        LET cur == eng.current
            pn == eng.pool[cur].parent
            split == down_heads(cur)
            kept == { k \in (split + 1) .. Len(adj[cur]) : ~filter(cur, k - split) }
            pick(k) == k \in kept
        IN IF pn = NULL \/ rank[cur] > rank[pn]
           THEN eng.neis = adj[cur]
           ELSE /\ eng.neis = SelectIdx(adj[cur], pick, 1)
                /\ \A i \in DOMAIN eng.neis : rank[eng.neis[i].to] < rank[cur]

\* a step down whose filter rejected a down edge, in a search in which an
\* earlier step down had admitted one
C14_Witness ==
    /\ pol.kind = "fch_dfs" /\ JustExpanded(eng)
    /\ eng.pool[eng.current].parent # NULL
    /\ rank[eng.current] < rank[eng.pool[eng.current].parent]
    /\ Len(eng.neis) < Len(adj[eng.current]) - down_heads(eng.current)
    /\ \E m \in Node :
          LET p == eng.pool[m].parent
          IN /\ Touched(eng, m) /\ p # NULL
             /\ eng.pool[p].parent # NULL
             /\ rank[p] < rank[eng.pool[p].parent]

-----------------------------------------------------------------------------
(* C15: the cutoffs bound a search *)

\* C15: at every point of a search the number of expanded nodes is at most
\* the expansion cutoff and every expanded node has an f of at most the
\* cost cutoff; a search that a cutoff ended had peeked a frontier minimum
\* that is not the target (the goal test comes first) and had not popped it.
C15_CutoffsRespected ==
    (ValidQuery(eng) /\ eng.pc \in {"loop", "succ", "done"}) =>
        /\ eng.nodes_expanded <= eng.exp_cutoff
        /\ \A n \in ExpandedSet(eng) : eng.pool[n].f <= eng.cost_cutoff
        /\ (eng.pc = "done" /\ eng.why = "cost_cutoff") =>
              \E top \in MinF(eng.pool, eng.open) :
                  /\ top # eng.target /\ ~eng.pool[top].expanded
                  /\ eng.pool[top].f > eng.cost_cutoff
        /\ (eng.pc = "done" /\ eng.why = "exp_cutoff") =>
              /\ eng.nodes_expanded = eng.exp_cutoff
              /\ \E top \in MinF(eng.pool, eng.open) :
                    top # eng.target /\ ~eng.pool[top].expanded

\* a search under two finite cutoffs that the cost cutoff ended after an
\* expansion, with a target the start reaches
C15_Witness ==
    /\ ValidQuery(eng) /\ eng.pc = "done" /\ eng.why = "cost_cutoff"
    /\ eng.exp_cutoff < INF /\ eng.cost_cutoff < INF
    /\ eng.nodes_expanded >= 1
    /\ eng.target \in Reach(eng.start)

-----------------------------------------------------------------------------
(* C16: every node is expanded at most once *)

\* C16: within one search no node is expanded twice (the count of
\* expansions is the number of expanded nodes, at most the number of nodes
\* of the graph), no expanded node is in the frontier, a step of the search
\* leaves the g and the parent of an expanded node alone, also when the
\* node is reached again at a lower g, and every search that has started
\* returns.
C16_ExpandedOnce ==
    /\ [](ValidQuery(eng) =>
            /\ eng.nodes_expanded = Cardinality(ExpandedSet(eng))
            /\ eng.nodes_expanded <= NumNodes
            /\ ExpandedSet(eng) \cap eng.open = {})
    /\ [][(ValidQuery(eng) /\ eng'.searchid = eng.searchid) =>
             \A n \in ExpandedSet(eng) : eng'.pool[n] = eng.pool[n]]_vars
    /\ (eng.pc \in {"loop", "succ"}) ~> (eng.pc \in {"done", "crash"})

\* a successor that is already expanded is reached at a g lower than its
\* own, in a search that expands three nodes or more
C16_Witness ==
    /\ ValidQuery(eng) /\ eng.pc = "succ" /\ eng.nodes_expanded >= 3
    /\ eng.pool[eng.neis[eng.i].to].expanded
    /\ eng.pool[eng.current].g + eng.neis[eng.i].wt < eng.pool[eng.neis[eng.i].to].g

-----------------------------------------------------------------------------
(* C17: the parent references form a tree *)

\* the graph has a cycle of zero-weight edges through nodes 1, 2 and 3
ZeroCycle ==
    \A e \in { <<1, 2>>, <<2, 3>>, <<3, 1>> } :
        \E i \in DOMAIN adj[e[1]] : adj[e[1]][i].to = e[2] /\ adj[e[1]][i].wt = 0

\* C17: at every point of a search, following the parent references from
\* any node initialised in the episode visits no node twice, visits only
\* nodes of the episode and ends at the start node, the one node without a
\* parent; this holds on graphs with zero-weight edges and cycles too.
C17_ParentTree ==
    (ValidQuery(eng) /\ eng.pc \in {"loop", "succ", "done"}) =>
        \A n \in Node : Touched(eng, n) =>
            LET path == follow(eng.pool, n, NumNodes + 1)
            IN /\ Len(path) <= NumNodes
               /\ Cardinality({ path[k] : k \in DOMAIN path }) = Len(path)
               /\ path[1] = eng.start /\ path[Len(path)] = n
               /\ \A k \in DOMAIN path : Touched(eng, path[k])
               /\ (eng.pool[n].parent = NULL) <=> (n = eng.start)

\* a search on a graph with a cycle of zero-weight edges has touched every
\* node of the cycle
C17_Witness ==
    /\ ValidQuery(eng) /\ eng.pc = "done"
    /\ ZeroCycle
    /\ \A n \in {1, 2, 3} : Touched(eng, n)
    /\ eng.nodes_expanded >= 3

-----------------------------------------------------------------------------
(* C18: the g of a parent *)

\* the step gives node n a parent: n is initialised or relaxed
AssignsParent(n) ==
    /\ eng.pc = "succ" /\ ValidQuery(eng)
    /\ eng'.pool[n] # eng.pool[n]
    /\ eng'.pool[n].parent # NULL

\* C18 as stated: whenever a node is given a parent, the g of the parent is
\* strictly smaller than the g the node receives.
C18_StrictlySmaller ==
    [][\A n \in Node : AssignsParent(n) =>
          eng.pool[eng'.pool[n].parent].g < eng'.pool[n].g]_vars

\* C18 amended: whenever a node is given a parent, the parent is the node
\* under expansion and the g the node receives is the g of the parent plus
\* the weight of the edge followed: the g of the parent is strictly smaller
\* when the weight is positive and equal when it is zero.
C18_ParentPlusEdge ==
    [][\A n \in Node : AssignsParent(n) =>
          LET p == eng'.pool[n].parent
              wt == eng.neis[eng.i].wt
          IN /\ n = eng.neis[eng.i].to /\ p = eng.current
             /\ eng'.pool[n].g = eng.pool[p].g + wt
             /\ eng'.pool[p].g = eng.pool[p].g
             /\ wt > 0 => eng.pool[p].g < eng'.pool[n].g
             /\ wt = 0 => eng.pool[p].g = eng'.pool[n].g]_vars

\* a node has received the g of its parent, which is not the start, over a
\* zero-weight edge
C18_Witness ==
    /\ ValidQuery(eng) /\ eng.pc \in {"loop", "succ"}
    /\ eng.hooked.fn = "relax"
    /\ eng.pool[eng.hooked.n].parent = eng.current
    /\ eng.current # eng.start
    /\ eng.pool[eng.hooked.n].g = eng.pool[eng.current].g
    /\ eng.pool[eng.current].g > 0

-----------------------------------------------------------------------------
(* C19: the counter of searches and the stamps *)

\* C19: a call of search advances the engine's counter of searches by one
\* and hands the new value to the problem instance; no other step changes
\* either; every node that a step initialises or relaxes, the start node
\* and every generated successor, carries the current value of the counter
\* as its stamp.
C19_StampIsCounter ==
    [][/\ eng.pc \in {"idle", "done"} =>
             /\ eng'.searchid = eng.searchid + 1
             /\ eng'.instance_search_id = eng'.searchid
       /\ eng.pc \in {"loop", "succ"} =>
             /\ eng'.searchid = eng.searchid
             /\ eng'.instance_search_id = eng.instance_search_id
       /\ \A n \in Node :
             (eng'.pool[n] # eng.pool[n] /\ eng'.pool[n].g < INF)
                 => eng'.pool[n].sid = eng'.searchid]_vars

\* the second search of an engine has stamped a generated successor while
\* a node of the first search still carries the stamp 1
C19_Witness ==
    /\ eng.searchid = 2 /\ eng.instance_search_id = 2
    /\ \E n \in Node : eng.pool[n].sid = 2 /\ eng.pool[n].parent # NULL
    /\ \E n \in Node : eng.pool[n].sid = 1 /\ eng.pool[n].g < INF

-----------------------------------------------------------------------------
(* C20: the apex *)

\* a is the first node of maximum rank
FirstOfMaxRank(a) ==
    /\ a \in Node
    /\ \A m \in Node : rank[m] <= rank[a]
    /\ \A m \in Node : rank[m] = rank[a] => a <= m

\* C20: the apex each of the two label builders selects is a node of
\* maximum rank, the one of smallest index among the nodes of that rank;
\* the two builders select the same node for the same rank vector.
C20_FirstMaximum ==
    lbl.phase = "scan" =>
        /\ lbl.apex_id # INF => FirstOfMaxRank(lbl.apex_id)
        /\ lbl.source # INF => FirstOfMaxRank(lbl.source)
        /\ (lbl.apex_id # INF /\ lbl.source # INF) => lbl.apex_id = lbl.source

\* both builders have chosen among several nodes of maximum rank, the
\* first of which is not node 0
C20_Witness ==
    /\ lbl.phase = "scan" /\ lbl.apex_id # INF /\ lbl.source # INF
    /\ lbl.apex_id > 0
    /\ \E m \in Node : m > lbl.apex_id /\ rank[m] = rank[lbl.apex_id]

-----------------------------------------------------------------------------
(* C21: how the first-move sets change during the search from the apex *)

\* C21: during the Dijkstra search from the apex, the step for a successor
\* generated from the apex adds the index of the generating edge to the
\* successor's set; the step for a successor reached from another node
\* replaces its set by the predecessor's on a strictly better cost, adds
\* the predecessor's set on an equal cost and leaves it alone on a worse
\* cost; no set of another node and no other step changes a set.
C21_FirstMoveRule ==
    [][ (lbl.phase = "dijkstra" /\ lbl'.phase = "dijkstra") =>
          IF eng.pc = "succ"
          THEN LET succ == eng.neis[eng.i].to
                   from == eng.current
                   alt_g == eng.pool[from].g + eng.neis[eng.i].wt
                   g_val == IF Touched(eng, succ) THEN eng.pool[succ].g ELSE INF
               IN /\ \A n \in Node \ {succ} : lbl'.first_move[n] = lbl.first_move[n]
                  /\ from = lbl.source => adj[lbl.source][eng.i].to = succ
                  /\ lbl'.first_move[succ] =
                        IF from = lbl.source THEN lbl.first_move[succ] \cup {eng.i - 1}
                        ELSE IF alt_g < g_val THEN lbl.first_move[from]
                        ELSE IF alt_g = g_val
                             THEN lbl.first_move[succ] \cup lbl.first_move[from]
                        ELSE lbl.first_move[succ]
          ELSE lbl'.first_move = lbl.first_move ]_vars

\* the search is about to reach a successor at exactly the cost it has, from
\* a node other than the apex whose set holds a move the successor's lacks,
\* after some node took over the set of a strictly better predecessor
C21_Witness ==
    /\ lbl.phase = "dijkstra" /\ eng.pc = "succ"
    /\ eng.current # lbl.source
    /\ Touched(eng, eng.neis[eng.i].to)
    /\ eng.pool[eng.current].g + eng.neis[eng.i].wt = eng.pool[eng.neis[eng.i].to].g
    /\ ~(lbl.first_move[eng.current] \subseteq lbl.first_move[eng.neis[eng.i].to])
    /\ \E m \in Node : /\ Touched(eng, m)
                       /\ eng.pool[m].parent \notin {NULL, lbl.source}
                       /\ lbl.first_move[m] # {}

-----------------------------------------------------------------------------
(* C22: the first-move sets when the search from the apex has ended *)

\* the edges that do not lead up: the graph the search from the apex walks
DownGraph == [n \in Node |-> SelectSeq(adj[n], LAMBDA e : ~(rank[e.to] > rank[n]))]

\* the indices of the apex's edges that begin a shortest path to n
ShortestFirstMoves(n) ==
    { i - 1 : i \in { j \in DOMAIN adj[lbl.source] :
                        Plus(adj[lbl.source][j].wt,
                             DistIn(DownGraph, Node, adj[lbl.source][j].to, n))
                          = DistIn(DownGraph, Node, lbl.source, n) } }

\* C22: when the Dijkstra search from the apex has ended, the first-move
\* set of every node the search reached, the apex aside, is exactly the set
\* of indices of the apex's edges that begin a shortest path from the apex
\* to the node (zero-weight edges and parallel apex edges included).
C22_ExactFirstMoves ==
    (lbl.phase = "dijkstra" /\ eng.pc = "done") =>
        \A n \in ExpandedSet(eng) \ {lbl.source} :
            lbl.first_move[n] = ShortestFirstMoves(n)

-----------------------------------------------------------------------------
(* C23: the postorder ids of the two down-edge traversals *)

\* the nodes the traversal of compute_labels gave an id
LabVisited == { n \in Node : lbl.dfs_order[n] # INF }

\* the nodes the traversal of the policy gave an id
FchVisited == { n \in Node : pol.node_labels[n] # INF }

\* the j-th down edge of n passes the first-move test of the policy
Intersects(n, j) ==
    lbl.first_move[adj[n][down_heads(n) + j].to] \cap lbl.first_move[n] # {}

\* the nodes below the nodes of S in the traversal of the policy: reached
\* over at most k down edges that pass the first-move test
RECURSIVE FchBelow(_, _)
FchBelow(S, k) ==
    IF k = 0 THEN S
    ELSE FchBelow(S \cup UNION { { adj[n][down_heads(n) + j].to :
                                      j \in { i \in 1 .. (Len(adj[n]) - down_heads(n)) :
                                                Intersects(n, i) } } :
                                  n \in S }, k - 1)

\* C23: either traversal gives an id to exactly the nodes it visits, the
\* ids are 0, 1, 2, ... without gap or repetition, the id of a node is
\* greater than the id of every other node below it, and the ids of all
\* nodes below it lie in the id interval kept for the node (the node label
\* of compute_labels; in the policy the label of every edge that enters
\* the node in the traversal).
C23_Postorder ==
    /\ lbl.phase = "labelled" =>
          /\ LabVisited = DownReach(apex_scan(0, 0))
          /\ { lbl.dfs_order[n] : n \in LabVisited } = 0 .. (Cardinality(LabVisited) - 1)
          /\ \A n \in LabVisited : \A m \in DownReach(n) :
                /\ m # n => lbl.dfs_order[m] < lbl.dfs_order[n]
                /\ IntervalContains(lbl.node_labels[n].ids, lbl.dfs_order[m])
    /\ pol.kind = "fch_dfs" =>
          /\ FchVisited = FchBelow({lbl.source}, NumNodes)
          /\ { pol.node_labels[n] : n \in FchVisited } = 0 .. (Cardinality(FchVisited) - 1)
          /\ \A n \in FchVisited :
                /\ \A m \in FchBelow({n}, NumNodes) \ {n} :
                       pol.node_labels[m] < pol.node_labels[n]
                /\ \A j \in 1 .. (Len(adj[n]) - down_heads(n)) :
                       Intersects(n, j) =>
                          \A m \in FchBelow({adj[n][down_heads(n) + j].to}, NumNodes) :
                              IntervalContains(pol.edge_labels[n][j], pol.node_labels[m])

\* both traversals are done and visited every node; below some node other
\* than the apex lie two more; the policy left out a down edge
C23_Witness ==
    /\ lbl.phase = "labelled" /\ pol.kind = "fch_dfs"
    /\ LabVisited = Node /\ FchVisited = Node
    /\ \E n \in Node \ {lbl.source} : Cardinality(DownReach(n)) >= 3
    /\ \E n \in FchVisited : \E j \in 1 .. (Len(adj[n]) - down_heads(n)) : ~Intersects(n, j)

-----------------------------------------------------------------------------
(* C24: the first-move test of the policy's traversal *)

-----------------------------------------------------------------------------
(* C25: the up-apex of every node *)

\* the nodes reached from the nodes of S over at most k edges that do not
\* lead down
RECURSIVE UpClosure(_, _)
UpClosure(S, k) ==
    IF k = 0 THEN S
    ELSE UpClosure(S \cup UNION { { adj[n][i].to :
                                      i \in { j \in DOMAIN adj[n] :
                                                ~(rank[adj[n][j].to] < rank[n]) } } :
                                  n \in S }, k - 1)

UpReach(n) == UpClosure({n}, NumNodes)

\* the up-apex recorded for n is a node of highest rank among the nodes n
\* reaches over edges that do not lead down
UpApexIsHighest(n) ==
    /\ lbl.up_apex[n] \in UpReach(n)
    /\ \A m \in UpReach(n) : rank[m] <= rank[lbl.up_apex[n]]

\* C25: once compute_labels has been called, its up-closure pass has
\* recorded for every node the node of highest rank it reaches over up
\* edges (the node itself when it has none), whatever the graph and the
\* ranks, equal ranks included.
C25_UpApexIsHighest ==
    lbl.phase # "new" =>
        (lbl.phase # "overflow" /\ \A n \in Node : UpApexIsHighest(n))

-----------------------------------------------------------------------------
(* C26: the labels of the up edges *)

\* C26: after compute_labels, the label of every up edge (u, v) contains
\* the label the down traversal computed for the up-apex of v, that is, it
\* holds the attributes of every node the up-apex of v reaches over down
\* edges.
C26_UpEdgeHoldsApexClosure ==
    lbl.phase = "labelled" =>
        \A u \in Node : \A i \in DOMAIN adj[u] :
            rank[adj[u][i].to] > rank[u] =>
                /\ LabelWithin(lbl.node_labels[lbl.up_apex[adj[u][i].to]], lbl.lab[u][i])
                /\ \A m \in DownReach(lbl.up_apex[adj[u][i].to]) :
                       LabelHolds(lbl.lab[u][i], m)

-----------------------------------------------------------------------------
(* C27: the first edge recorded by improve_labels *)

\* the node on the parent path of n whose parent is the source of the run
RECURSIVE ChildOfSource(_, _)
ChildOfSource(n, fuel) ==
    IF fuel = 0 \/ eng.pool[n].parent \in {NULL, lbl.source} THEN n
    ELSE ChildOfSource(eng.pool[n].parent, fuel - 1)

\* edge j of the source is the edge the run reached node c by: it leads to
\* c at the cost the run found for c, and no earlier edge does
FirstRelaxed(j, c) ==
    LET s == lbl.source
        leads(k) == adj[s][k].to = c /\ adj[s][k].wt = eng.pool[c].g
    IN j \in DOMAIN adj[s] /\ leads(j) /\ \A k \in 1 .. (j - 1) : ~leads(k)

\* C27: in the run of improve_labels for a source s, when a node n other
\* than s is expanded, the edge index recorded for n is the index of the
\* first edge of the parent path the run found from s to n (the edge first
\* relaxed; an alternative of equal or worse cost does not change it), so
\* the label of an edge of s grows only by nodes whose path in the
\* shortest-path tree leaves s through that edge.
C27_FirstEdgeOfParentPath ==
    (/\ lbl.phase = "improving" /\ lbl.hook = "improve"
     /\ JustExpanded(eng) /\ eng.current # lbl.source)
        => FirstRelaxed(lbl.first_move[eng.current] + 1,
                        ChildOfSource(eng.current, NumNodes))

-----------------------------------------------------------------------------
(* The temporal safe-interval grid (sipp/sipp_gridmap.cpp) *)

GridWidth == 2
GridHeight == 1
MaxTime == 3

Cell == 0 .. ((GridWidth * GridHeight) - 1)

\* warthog::COST_MAX: later than every time a caller names
COST_MAX == MaxTime + 1

\* the times a caller may pass to add_obstacle
Times == (0 .. MaxTime) \cup {COST_MAX}

\* the value of warthog::cbs::move a caller passes in the scenarios
Moves == {"WAIT"}

\* what a default-constructed warthog::sipp::safe_interval holds: the type
\* is declared in sipp_gridmap.h; either its constructor opens the interval
\* at 0 and never closes it, or the value-initialised record is all zero
DefaultIntervals ==
    { [s_time |-> 0, e_time |-> COST_MAX, action |-> "NONE"],
      [s_time |-> 0, e_time |-> 0, action |-> "NONE"] }

\* sipp_gridmap(gm): no temporal obstacle anywhere, and one
\* default-constructed interval per cell (the interval the loop fills in
\* from the map label is not the one it pushes)
sipp_gridmap(gm, blank) ==
    [gm |-> gm, blank |-> blank,
     t_gm |-> [i \in Cell |-> FALSE],
     intervals |-> [i \in Cell |-> <<blank>>],
     reversed |-> FALSE]

\* the body of add_obstacle's loop for one interval: what it pushes to temp
adjust_keeps_head(si, start_time, end_time, action) ==
    IF end_time < si.s_time THEN <<si>>
    ELSE IF start_time > si.e_time THEN <<si>>
    ELSE IF start_time <= si.s_time /\ si.e_time <= end_time THEN <<>>
    ELSE IF start_time <= si.s_time /\ end_time < si.e_time
    THEN <<[si EXCEPT !.s_time = end_time, !.action = action]>>
    ELSE IF si.s_time < start_time /\ si.e_time <= end_time
    THEN <<si>>
    ELSE IF si.s_time < start_time /\ si.e_time > end_time
    THEN << [s_time |-> end_time, e_time |-> si.e_time, action |-> action],
            [si EXCEPT !.e_time = start_time] >>
    ELSE <<>>

adjust(si, start_time, end_time, action) ==
    \* these intervals are unaffected by the new obstacle (still safe)
    IF end_time < si.s_time THEN <<si>>
    ELSE IF start_time > si.e_time THEN <<si>>
    \* these intervals are dominated by the obstacle so we remove them
    ELSE IF start_time <= si.s_time /\ si.e_time <= end_time THEN <<>>
    \* these intervals overlap with the obstacle so we adjust them
    ELSE IF start_time <= si.s_time /\ end_time < si.e_time
    THEN <<[si EXCEPT !.s_time = end_time, !.action = action]>>
    ELSE IF si.s_time < start_time /\ si.e_time <= end_time
    THEN <<[si EXCEPT !.e_time = start_time]>>
    \* these intervals are divided by the obstacle into two: the new
    \* interval, which begins after the obstacle, is pushed first
    ELSE IF si.s_time < start_time /\ si.e_time > end_time
    THEN << [s_time |-> end_time, e_time |-> si.e_time, action |-> action],
            [si EXCEPT !.e_time = start_time] >>
    ELSE <<>>

\* the loop of add_obstacle over intervals i .. Len(list) of one cell
RECURSIVE adjust_from(_, _, _, _, _)
adjust_from(list, i, start_time, end_time, action) ==
    IF i > Len(list) THEN <<>>
    ELSE adjust(list[i], start_time, end_time, action)
         \o adjust_from(list, i + 1, start_time, end_time, action)

\* std::sort by first.s_time_ < second.s_time_; intervals of equal start
\* time (they arise only after a call whose end precedes its start) keep
\* their order here
RECURSIVE sort_by_start(_)
sort_by_start(temp) ==
    IF Len(temp) <= 1 THEN temp
    ELSE LET rest == sort_by_start(Tail(temp))
             before == SelectSeq(rest, LAMBDA si : si.s_time < temp[1].s_time)
             after == SelectSeq(rest, LAMBDA si : ~(si.s_time < temp[1].s_time))
         IN  before \o <<temp[1]>> \o after

add_obstacle(g, x, y, start_time, end_time, action) ==
    \* temporal obstacles need to have a non-zero duration
    IF (end_time - start_time) = 0 THEN g
    ELSE LET node_id == (y * GridWidth) + x
             temp == adjust_from(g.intervals[node_id], 1, start_time, end_time, action)
         IN  [g EXCEPT !.intervals[node_id] = sort_by_start(temp),
                       !.t_gm[node_id] = TRUE]

clear_obstacles(g, x, y) ==
    LET node_id == (y * GridWidth) + x
        si == [g.blank EXCEPT
                  !.s_time = IF ~g.gm[node_id] THEN COST_MAX ELSE 0,
                  !.e_time = COST_MAX]
    IN  [g EXCEPT !.intervals[node_id] = <<si>>, !.t_gm[node_id] = FALSE]

\* the maps of the scenarios: cell 0 is traversable, the others may be
\* blocked
Maps == { gm \in [Cell -> BOOLEAN] : gm[0] }

\* a grid over any of them; reversed records whether some add_obstacle call so
\* far named an end time before its start time. Such calls can lengthen a
\* list without bound, so the scenarios make at most one
InitSipp ==
    /\ adj = [n \in Node |-> <<>>]
    /\ rank = [n \in Node |-> n]
    /\ eng = NewEngine
    /\ fresh = NewEngine
    /\ pol = GraphPolicy
    /\ limit = 0
    /\ hmax = 0
    /\ lbl = NoLabelling
    /\ grid \in { sipp_gridmap(gm, blank) :
                    gm \in Maps, blank \in DefaultIntervals }

AddObstacle ==
    /\ \E x \in 0 .. (GridWidth - 1), y \in 0 .. (GridHeight - 1),
          start_time \in Times, end_time \in Times, action \in Moves :
          /\ end_time < start_time => ~grid.reversed
          /\ grid' = [add_obstacle(grid, x, y, start_time, end_time, action)
                         EXCEPT !.reversed = @ \/ end_time < start_time]
    /\ UNCHANGED <<adj, rank, eng, fresh, pol, limit, hmax, lbl>>

ClearObstacles ==
    /\ \E x \in 0 .. (GridWidth - 1), y \in 0 .. (GridHeight - 1) :
          grid' = clear_obstacles(grid, x, y)
    /\ UNCHANGED <<adj, rank, eng, fresh, pol, limit, hmax, lbl>>

NextSipp == AddObstacle \/ ClearObstacles

SpecSipp == InitSipp /\ [][NextSipp]_vars

-----------------------------------------------------------------------------
(* Claims about the safe-interval grid *)

Smaller(a, b) == IF a < b THEN a ELSE b
Larger(a, b) == IF a < b THEN b ELSE a

\* a list is sorted by start time, no interval ends before it starts, and
\* two intervals share at most one point of time
Sorted(list) ==
    \A i, j \in DOMAIN list : i < j => list[i].s_time <= list[j].s_time
Proper(list) ==
    \A i \in DOMAIN list : list[i].s_time <= list[i].e_time
Disjoint(list) ==
    \A i, j \in DOMAIN list :
        i # j => Smaller(list[i].e_time, list[j].e_time)
                    <= Larger(list[i].s_time, list[j].s_time)
WellFormed(list) == Sorted(list) /\ Proper(list) /\ Disjoint(list)

\* C28: after any sequence of add_obstacle and clear_obstacles calls the
\* safe-interval list of every cell is sorted by non-decreasing start time,
\* every interval starts no later than it ends, and no two intervals of one
\* cell overlap in more than an endpoint.
C28_ListsWellFormed ==
    \A c \in Cell : WellFormed(grid.intervals[c])

\* the same, as long as no call named an end time before its start time
WellFormedAfterForwardCalls ==
    ~grid.reversed => \A c \in Cell : WellFormed(grid.intervals[c])

\* moments of time at twice the resolution of the times callers name, so
\* that the open stretch between two neighbouring times has a moment in it
Moments == 0 .. (2 * COST_MAX)
SafeAt(list, m) ==
    \E i \in DOMAIN list : (2 * list[i].s_time) <= m /\ m <= (2 * list[i].e_time)

AddObstacleEffect(before, after, x, y, start_time, end_time) ==
    LET c == (y * GridWidth) + x
    IN  IF start_time < end_time
        THEN /\ \A m \in Moments :
                  LET was == SafeAt(before.intervals[c], m)
                      is == SafeAt(after.intervals[c], m)
                  IN  /\ (2 * start_time) < m /\ m < (2 * end_time) => ~is
                      /\ (m < (2 * start_time) \/ m > (2 * end_time)) /\ was => is
                      /\ is => was
             /\ \A d \in Cell \ {c} :
                  /\ after.intervals[d] = before.intervals[d]
                  /\ after.t_gm[d] = before.t_gm[d]
        ELSE start_time = end_time
                => /\ after.intervals = before.intervals
                   /\ after.t_gm = before.t_gm

\* C29: add_obstacle(x, y, start, end) with start < end leaves the cell
\* with no safe interval containing a time strictly between start and end,
\* keeps safe every previously safe time strictly before start or strictly
\* after end, makes no unsafe time safe and changes no other cell; with
\* start equal to end it changes neither an interval nor a marker. This is
\* stated of every call that can be made on the grid reached so far.
C29_AddObstacleEffect ==
    \A x \in 0 .. (GridWidth - 1), y \in 0 .. (GridHeight - 1),
       start_time \in Times, end_time \in Times, action \in Moves :
       AddObstacleEffect(grid, add_obstacle(grid, x, y, start_time, end_time, action),
                         x, y, start_time, end_time)

\* an obstacle has cut the interval of one cell in two while the other
\* cell is as the constructor left it
C29_Witness ==
    /\ ~grid.reversed
    /\ \E c \in Cell :
          /\ grid.t_gm[c]
          /\ Len(grid.intervals[c]) >= 2
          /\ \E d \in Cell \ {c} :
                ~grid.t_gm[d] /\ grid.intervals[d] = <<grid.blank>>

-----------------------------------------------------------------------------
(* Claims about the width of the partition bit-vector *)

\* C30: the partition bit-vector of every label is long enough for every
\* partition id in use: for every node that compute_labels labels, the byte
\* index part[n] >> 3 it writes is smaller than bytes_per_af_label_, also
\* when the largest partition id is 0 or a multiple of 8.
C30_FlagByteExists ==
    \A n \in Node :
        lbl.dfs_order[n] # INF => (lbl.part[n] \div 8) < lbl.bytes_per_af_label

-----------------------------------------------------------------------------
(* Claims about the assertion of the up-closure pass *)

\* what the assertion of up_label_fn tests for edge i of node u: the
\* postorder-id interval of the merged label holds the node identifier of
\* the up-apex of u
AssertedOfUpEdge(u, i) ==
    IntervalContains(lbl.lab[u][i].ids, lbl.up_apex[u])

\* C31: the assertion in the up-closure pass always holds: for every node
\* and every one of its up edges, after the edge label is merged with the
\* node label of the source's up-apex, the postorder-id interval of the
\* label contains the identifier of the up-apex, on every graph, also for
\* nodes whose up-apex the down traversal from the apex did not visit.
C31_UpAssertionHolds ==
    lbl.phase = "labelled" =>
        \A u \in Node : \A i \in DOMAIN adj[u] :
            ~(rank[adj[u][i].to] < rank[u]) => AssertedOfUpEdge(u, i)

\* the same, for the nodes whose up-apex the down traversal visited
UpAssertionHoldsWhereVisited ==
    lbl.phase = "labelled" =>
        \A u \in Node : \A i \in DOMAIN adj[u] :
            (~(rank[adj[u][i].to] < rank[u]) /\ lbl.dfs_order[lbl.up_apex[u]] # INF)
                => AssertedOfUpEdge(u, i)

====
